---- MODULE Spec2Model ----
(***************************************************************************)
(* Cupid Hotel: the ingestion workflow (internal/app/commands.go), the     *)
(* cached read path (internal/app/queries.go), the MySQL repository and    *)
(* the upstream client (internal/adapters/cupid/client.go).                *)
(*                                                                         *)
(* Spec          one IngestHotel run at a time against store and cache,    *)
(*               with a bounded number of failing port calls               *)
(* SpecIdem      the same id ingested twice from one upstream snapshot     *)
(* SpecConc      GetHotel / ListReviews interleaved with IngestHotel       *)
(* SpecClient    getFirst/get against a server answering arbitrarily       *)
(* SpecDriver    the ingestor's main loop and its worker semaphore         *)
(* SpecRead      the cached read path beside another process's writes      *)
(* SpecReingest  two runs with the upstream review list changing between   *)
(* SpecRetry     two runs against an upstream that lacks resources         *)
(* SpecLangs     one run with any subset of the translations missing       *)
(* SpecGone      a stored id whose property may have gone upstream         *)
(* SpecEvict     one run over a cache filled by earlier reads              *)
(* SpecMap       mapProperty on one document                               *)
(* SpecMapReview mapReviews on one review document                         *)
(***************************************************************************)
EXTENDS Integers, Sequences, FiniteSets, TLC

\* ------------------------------------------------------------------ bounds

MaxId == 1        \* requested hotel ids are 1..MaxId
MaxFaults == 1    \* failing port calls injected per behaviour (Spec)
MaxReviews == 2   \* length of the upstream review list
MaxReads == 2     \* GetHotel calls of the reader (SpecConc)
MaxTasks == 3     \* length of the driver's id list (SpecDriver)
MaxWorkers == 2   \* the configured worker count is 0..MaxWorkers (SpecDriver)
MaxChanges == 1   \* upserts of the same property row by another process (SpecRead)

HotelIds == 1..MaxId
\* ids a property payload may carry: 0 stands for "no id field" (mapProperty
\* then yields 0), MaxId+1 for an id other than every requested one
PayloadIds == 0..(MaxId + 1)

\* --------------------------------------------------------------- languages

\* the languages in another order
LangsOtherOrder == <<"en", "es", "fr">>

Langs == <<"en", "fr", "es">>
LangSet == {Langs[i] : i \in 1..Len(Langs)}

\* strings.ToLower on the words the model uses
ToLower(w) ==
  CASE w = "Not" -> "not"
    [] w = "Found" -> "found"
    [] w = "Forbidden" -> "forbidden"
    [] w = "Unauthorized" -> "unauthorized"
    [] w = "EN" -> "en"
    [] w = "FR" -> "fr"
    [] w = "ES" -> "es"
    [] OTHER -> w

\* ------------------------------------------------------------------ errors
\* An error value: kind, the status code it carries (0: none), the response
\* body snippet (words) and the words a wrapper put in front of it.

Err(kind, code, body) == [kind |-> kind, code |-> code, body |-> body, pre |-> <<>>]
Nil == Err("nil", 0, <<>>)

ErrNotFound == Err("notfound", 0, <<>>)
ErrUnauthorized == Err("unauthorized", 0, <<>>)
ErrForbidden == Err("forbidden", 0, <<>>)
ErrCanceled == Err("canceled", 0, <<>>)
ErrNoCandidate == Err("nocandidate", 0, <<>>)
ErrRemote(code) == Err("remote", code, <<>>)
ErrBadStatus(code, body) == Err("badstatus", code, body)
ErrNetwork == Err("network", 0, <<>>)
ErrDecode == Err("decode", 0, <<>>)
ErrLimiter == Err("limiter", 0, <<>>)
ErrDB == Err("db", 0, <<>>)
ErrFK == Err("fk", 0, <<>>)

\* strconv of the status codes the model uses
CodeStr(c) ==
  CASE c = 400 -> "400" [] c = 401 -> "401" [] c = 403 -> "403" [] c = 404 -> "404"
    [] c = 418 -> "418" [] c = 429 -> "429" [] c = 500 -> "500" [] c = 503 -> "503"
    [] OTHER -> "0"

\* err.Error(): the message as a sequence of words
ErrorText(e) ==
  e.pre \o
  ( CASE e.kind = "notfound" -> <<"cupid:", "not", "found">>
      [] e.kind = "unauthorized" -> <<"cupid:", "unauthorized">>
      [] e.kind = "forbidden" -> <<"cupid:", "forbidden">>
      [] e.kind = "canceled" -> <<"context", "canceled">>
      [] e.kind = "nocandidate" -> <<"no", "candidate", "URL", "succeeded">>
      [] e.kind = "remote" -> <<"remote", CodeStr(e.code)>>
      [] e.kind = "badstatus" -> <<"bad", "status", CodeStr(e.code), ":">> \o e.body
      [] e.kind = "network" -> <<"dial", "tcp:", "connection", "refused">>
      [] e.kind = "decode" -> <<"unexpected", "EOF">>
      [] e.kind = "limiter" -> <<"rate:", "Wait", "would", "exceed", "context", "deadline">>
      [] e.kind = "db" -> <<"invalid", "connection">>
      [] e.kind = "domain.notfound" -> <<"not", "found">>
      [] e.kind = "fk" -> <<"Error", "1452:", "foreign", "key", "constraint", "fails">>
      [] OTHER -> <<>> )

LowerText(t) == [i \in 1..Len(t) |-> ToLower(t[i])]

\* strings.Contains at word granularity: needle occurs as consecutive words
Contains(t, needle) ==
  \E i \in 1..Len(t) :
    /\ i + Len(needle) - 1 <= Len(t)
    /\ \A j \in 1..Len(needle) : t[i + j - 1] = needle[j]

\* errors.Is(err, domain.ErrNotFound): the repository's sentinel, which no
\* error of the upstream client is
IsDomainNotFound(e) == e.kind = "domain.notfound"

\* the not-found test without its message-text half
SentinelNotFoundOnly(e) == IsDomainNotFound(e)

\* commands.go: the "not found" test of the three fetch steps
ClassNotFound(e) ==
  IsDomainNotFound(e) \/ Contains(LowerText(ErrorText(e)), <<"not", "found">>)

\* the 401/403 test without its 401 half
ForbiddenOnly(e) ==
  LET low == LowerText(ErrorText(e)) IN
    Contains(low, <<"403">>) \/ Contains(low, <<"forbidden">>)

\* commands.go: the 401/403 test of the three fetch steps
ClassAuth(e) ==
  LET low == LowerText(ErrorText(e)) IN
    \/ Contains(low, <<"403">>) \/ Contains(low, <<"forbidden">>)
    \/ Contains(low, <<"401">>) \/ Contains(low, <<"unauthorized">>)

\* --------------------------------------------------------------- variables

VARIABLES
  upstream,    \* what the upstream API holds: property, review list, translations
  faultsLeft,  \* failing port calls the environment may still inject
  properties,  \* table properties: id -> row
  i18n,        \* table property_i18n: <<property_id, lang>> -> row
  reviews,     \* table reviews: the rows in insertion order (id = position)
  misses,      \* table ingest_misses: <<id, reason>> -> http_status
  cache,       \* the key-value cache: key -> value
  todo,        \* ids the driver still has to ingest
  pc,          \* IngestHotel: the port call it is about to make
  id,          \* IngestHotel: its id argument
  p,           \* IngestHotel: the payload GetProperty returned
  revs,        \* IngestHotel: the list GetReviews returned
  li,          \* IngestHotel: index into Langs of the translation loop
  tr,          \* IngestHotel: the payload GetTranslation returned
  miss,        \* IngestHotel: status and reason of the LogMiss it is about to make
  dels,        \* IngestHotel: cache keys the running invalidation has yet to delete
  after,       \* IngestHotel: where it continues once dels is empty
  ret,         \* IngestHotel: the value the last finished run returned
  fetchErr,    \* IngestHotel: the error of this run's failed fetches, in order
  calls,       \* the port calls of the current run, in order
  rpc,         \* GetHotel: the port call it is about to make
  rid,         \* GetHotel: its id argument
  rlang,       \* GetHotel: its lang argument
  rh,          \* GetHotel: the view it read from the repository
  rret,        \* GetHotel: what the last finished call returned
  readsLeft,   \* GetHotel / ListReviews calls the reader may still start
  rpg,         \* ListReviews: its page argument (NoPage during GetHotel)
  candidates,  \* client: number of candidate URLs of the resource call
  cand,        \* getFirst: index of the candidate URL in hand
  last,        \* getFirst: its variable last
  gets,        \* getFirst: what each get returned so far, in order
  result,      \* getFirst: the error it returned
  out,         \* the decoded body: the candidate it came from (0: untouched)
  cpc,         \* get: the statement it is about to execute
  attempt,     \* get: the loop index i
  lastErr,     \* get: its variable lastErr
  resp,        \* get: the response hc.Do handed back, not yet examined
  resps,       \* get: the responses examined for the URL in hand
  sent,        \* the candidate index of every request that reached the server
  waits,       \* rate-limiter tokens taken
  ctx,         \* the caller's context: "live" or "canceled"
  hdr,         \* get: the Retry-After header of the response being retried
  wait,        \* get: the duration (ms) handed to sleepCtx
  workers,     \* driver: cfg.Workers
  sem,         \* driver: slots of the weighted semaphore that are held
  wg,          \* driver: the WaitGroup counter
  dpc,         \* driver: the statement main is about to execute
  dnext,       \* driver: index into PropertyIDs of the loop
  tasks,       \* driver: per list position, the goroutine launched for it
  mdoc,        \* mapper: the property document handed to mapProperty
  hotel,       \* mapper: the domain.Hotel fields it returned
  mpc,         \* mapper: "doc" / "review" before the call, "mapped" after it
  rdoc,        \* mapper: the review document handed to mapReviews
  rtext        \* mapper: the Text of the domain.Review it returned

storeVars == <<properties, i18n, reviews, misses>>
ingestVars == <<todo, pc, id, p, revs, li, tr, miss, dels, after, ret, fetchErr, calls>>
readerVars == <<rpc, rid, rlang, rh, rret, readsLeft, rpg>>
clientVars ==
  <<candidates, cand, last, gets, result, out, cpc, attempt, lastErr, resp, resps,
    sent, waits, ctx, hdr, wait>>
driverVars == <<workers, sem, wg, dpc, dnext, tasks>>
mapVars == <<mdoc, hotel, mpc, rdoc, rtext>>

\* ------------------------------------------------------------ upstream data

\* A property payload: idf is what the id aliases resolve to (0: none does),
\* ver stands for the rest of the content.
Payload(idf, ver) == [idf |-> idf, ver |-> ver]
NoPayload == Payload(0, 0)

\* A review document: explicit id ("" when absent), source label ("" when
\* absent), the text standing for author/title/text/lang/rating ("" when
\* absent) and its pros/cons ("" when it has none).
ReviewDoc(r, source, text, aspects) ==
  [rid |-> r, source |-> source, text |-> text, aspects |-> aspects]
ReviewDocs ==
  { ReviewDoc(r, s, "good", "") : r \in {"", "r1"}, s \in {"", "web"} }
\* versions of one upstream review (same source and id): with or without
\* text, with or without pros/cons
MergeDocs ==
  { ReviewDoc("r1", "web", t, a) : t \in {"", "good"}, a \in {"", "pros"} }

SeqsUpTo(S, n) == UNION { [1..k -> S] : k \in 0..n }

\* ------------------------------------------------------------------ mappers

\* mapProperty: the row is keyed by the id found in the payload
\* (firstInt64Flexible over hotel_id, cupid_id, id; 0 when none resolves)
mapProperty(pl) == [ID |-> pl.idf, ver |-> pl.ver]

\* the synthesized natural id: sha1 over author|title|text|lang|rating
HashId(doc) == "sha1:" \o doc.text

\* mapReviews: one record per document, keyed by the requested id
mapReview(hid, doc) ==
  [ PropertyID |-> hid,
    SourceID |-> IF doc.rid # "" THEN doc.rid ELSE HashId(doc),
    Source |-> doc.source,          \* "" is the nil pointer
    Text |-> doc.text,              \* "" is the nil pointer
    Aspects |-> doc.aspects ]       \* AspectsJSON: "" is the empty slice
mapReviews(hid, docs) == [k \in 1..Len(docs) |-> mapReview(hid, docs[k])]

\* mapI18n: keyed by the requested id and language
mapI18n(hid, lang, pl) == [PropertyID |-> hid, Lang |-> lang, ver |-> pl.ver]

\* -------------------------------------------------------------- repository

\* upsertPropertySQL: INSERT ... ON DUPLICATE KEY UPDATE on primary key id
UpsertPropertyRows(props, h) ==
  [k \in DOMAIN props \cup {h.ID} |-> IF k = h.ID THEN [ver |-> h.ver] ELSE props[k]]

\* fk_i18n_property / fk_reviews_property: the parent row must exist
ParentExists(props, hid) == hid \in DOMAIN props

\* a write of a translation that replaces the table's content
ReplaceI18nRows(rows, r) ==
  [k \in {<<r.PropertyID, r.Lang>>} |-> [ver |-> r.ver]]

\* upsertI18nSQL: primary key (property_id, lang)
UpsertI18nRows(rows, r) ==
  LET key == <<r.PropertyID, r.Lang>> IN
  [k \in DOMAIN rows \cup {key} |-> IF k = key THEN [ver |-> r.ver] ELSE rows[k]]

\* uq_reviews_natural (property_id, source, source_id): a NULL column never
\* equals anything, so a row with a NULL source conflicts with no row
NaturalConflict(row, rv) ==
  /\ rv.Source # "" /\ row.Source # ""
  /\ row.PropertyID = rv.PropertyID
  /\ row.Source = rv.Source
  /\ row.SourceID = rv.SourceID

\* the arguments Repo.UpsertReviews binds: valStr(p) is NULL for a nil
\* pointer, string(b) is the empty string, not NULL, for an empty slice
Null == "NULL"
valStr(pv) == IF pv = "" THEN Null ELSE pv
BytesArg(b) == b
Coalesce(new, old) == IF new # Null THEN new ELSE old

\* insertReviewsOnDup for one row: COALESCE(VALUES(col), reviews.col)
MergeReview(row, rv) ==
  [row EXCEPT !.Text = Coalesce(valStr(rv.Text), row.Text),
              !.Aspects = Coalesce(BytesArg(rv.Aspects), row.Aspects)]

UpsertReviewRow(rows, rv) ==
  IF \E k \in 1..Len(rows) : NaturalConflict(rows[k], rv)
    THEN [k \in 1..Len(rows) |->
            IF NaturalConflict(rows[k], rv) THEN MergeReview(rows[k], rv) ELSE rows[k]]
    ELSE Append(rows, rv)

\* Repo.UpsertReviews: one multi-row INSERT, the rows applied in order
RECURSIVE UpsertReviewRows(_, _)
UpsertReviewRows(rows, rs) ==
  IF rs = <<>> THEN rows
  ELSE UpsertReviewRows(UpsertReviewRow(rows, Head(rs)), Tail(rs))

\* an insert whose duplicate branch also rewrites http_status
OverwriteMiss(ms, hid, status, reason) ==
  [k \in DOMAIN ms \cup {<<hid, reason>>} |->
     IF k = <<hid, reason>> THEN status ELSE ms[k]]

\* insertMissSQL: primary key (id, reason); a duplicate only bumps seen_at
\* (seen_at itself is not carried by the model)
LogMissRows(ms, hid, status, reason) ==
  IF <<hid, reason>> \in DOMAIN ms THEN ms
  ELSE [k \in DOMAIN ms \cup {<<hid, reason>>} |->
          IF k = <<hid, reason>> THEN status ELSE ms[k]]

\* Repo.ListReviews: WHERE property_id=? ORDER BY created_at DESC, id DESC LIMIT ?
RECURSIVE NewestFirst(_, _, _)
NewestFirst(rows, hid, limit) ==
  IF rows = <<>> \/ limit = 0 THEN <<>>
  ELSE LET lastRow == rows[Len(rows)]
           rest == SubSeq(rows, 1, Len(rows) - 1) IN
       IF lastRow.PropertyID = hid
         THEN <<lastRow>> \o NewestFirst(rest, hid, limit - 1)
         ELSE NewestFirst(rest, hid, limit)
ReviewsPage(rows, hid, pg) == [Items |-> NewestFirst(rows, hid, pg.Limit)]

\* a read that finds no row
NoRowFound(props, hid) == FALSE

\* getHotelSQL + Repo.GetHotel: properties LEFT JOIN property_i18n
HasView(props, hid) == hid \in DOMAIN props
View(props, rows, hid, lang) ==
  [ ID |-> hid,
    pver |-> props[hid].ver,
    iver |-> IF <<hid, lang>> \in DOMAIN rows THEN rows[<<hid, lang>>].ver ELSE -1,
    Language |-> lang ]

\* -------------------------------------------------------------- cache keys

Key(ns, hid, lang, limit, sort) ==
  [ns |-> ns, id |-> hid, lang |-> lang, limit |-> limit, sort |-> sort]

\* a key that leaves the language out
InvalidateWithoutLang(hid, lang) == Key("hotel", hid, "", 0, "")

\* invalidateHotelLang: fmt.Sprintf("hotel:%d:%s", id, strings.ToLower(lang))
InvalidateHotelKey(hid, lang) == Key("hotel", hid, ToLower(lang), 0, "")

\* an invalidation that covers the first language only
InvalidateFirstLangOnly(hid) == <<InvalidateHotelKey(hid, Langs[1])>>

\* invalidateHotelAllLangs: en, fr, es in turn
InvalidateAllKeys(hid) == [k \in 1..Len(Langs) |-> InvalidateHotelKey(hid, Langs[k])]

\* an invalidation of reviews that takes the default key only
InvalidateDefaultOnly(hid) == <<Key("reviews", hid, "", 50, "-created_at")>>

\* invalidateReviews: limits 50, 100, 200 with sort -created_at
ReviewLimits == <<50, 100, 200>>
InvalidateReviewsKeys(hid) ==
  [k \in 1..Len(ReviewLimits) |-> Key("reviews", hid, "", ReviewLimits[k], "-created_at")]

\* an invalidation of one language that takes every language's key
InvalidateEveryLang(hid, lang) == InvalidateAllKeys(hid)

\* the translation step's invalidation: invalidateHotelLang(ctx, id, lang)
InvalidateLangKeys(hid, lang) == <<InvalidateHotelKey(hid, lang)>>

\* QueryService.GetHotel: fmt.Sprintf("hotel:%d:%s", id, lang)
GetHotelKey(hid, lang) == Key("hotel", hid, lang, 0, "")

\* domain.PageQuery as the HTTP handler builds it: limit 1..200 (50 when
\* not given), no cursor, sort -created_at
PageQuery(limit, sort) == [Limit |-> limit, Sort |-> sort]
NoPage == PageQuery(0, "")
DefaultPage == PageQuery(50, "-created_at")
PageQueries == {DefaultPage, PageQuery(1, "-created_at")}

\* QueryService.ListReviews: fmt.Sprintf("reviews:%d:%d:%s", id, pg.Limit, pg.Sort)
ListReviewsKey(hid, pg) == Key("reviews", hid, "", pg.Limit, pg.Sort)

\* a cache that never answers with a hit
NeverHit(c, k) == FALSE
\* Cache.Get: ok is true when the key is present
CacheHit(c, k) == k \in DOMAIN c

\* redis DEL
CacheDel(c, k) == [x \in DOMAIN c \ {k} |-> c[x]]
\* redis DEL's reply: the number of keys removed
CacheRemoved(c, k, f) == IF f = Nil /\ k \in DOMAIN c THEN 1 ELSE 0
\* redis SET
CacheSet(c, k, v) == [x \in DOMAIN c \cup {k} |-> IF x = k THEN v ELSE c[x]]

\* ------------------------------------------------------ IngestHotel (steps)
\* One action per port call of IngestionService.IngestHotel; the service is
\* always built with a cache (cmd/ingestor), so the s.cache != nil tests pass.

NoKey == Key("", 0, "", 0, "")
\* a port call as a recording fake sees it: operation, string and number
\* arguments, cache key, and the error it returned (Nil: none)
Call(op, a, n, key, res) == [op |-> op, a |-> a, n |-> n, key |-> key, res |-> res]

NoMiss == [status |-> 0, reason |-> ""]

\* errors the upstream client can hand back besides not-found
Bodies == { <<>>, <<"Not", "Found">>, <<"Forbidden">> }
FetchFaults ==
  { ErrUnauthorized, ErrForbidden, ErrRemote(503), ErrNetwork, ErrCanceled, ErrDecode }
    \cup { ErrBadStatus(400, b) : b \in Bodies }

\* what a fetch can return: the snapshot's answer, or an injected failure
FetchOutcomes(present) ==
  {IF present THEN Nil ELSE ErrNotFound}
    \cup (IF faultsLeft > 0 THEN FetchFaults ELSE {})

\* what a repository or cache call can return
PortOutcomes == {Nil} \cup (IF faultsLeft > 0 THEN {ErrDB} ELSE {})

Spend(e) == faultsLeft' = IF e \in FetchFaults \cup {ErrDB} THEN faultsLeft - 1 ELSE faultsLeft

\* an error that is dropped instead of wrapped
SwallowError(e) == Nil

\* a write whose error is not looked at
WriteIgnored(res) == TRUE

\* if err := s.repo.Upsert...(...); err != nil { return ... }
WriteOk(res) == res = Nil

\* a reviews step that upserts whatever came back
AlwaysUpsert(rs) == TRUE

\* if len(revs) > 0
HasReviews(rs) == Len(rs) > 0

\* fmt.Errorf("upsert reviews failed for %d: %w", id, err)
WrapUpsertReviews(e) == [e EXCEPT !.pre = <<"upsert", "reviews", "failed", "for", "id:">>]

\* a return that hands back nil whatever the error
ReturnNil(e) ==
  /\ pc' = "idle"
  /\ ret' = Nil

\* return e
Return(e) ==
  /\ pc' = "idle"
  /\ ret' = e

\* the statement after an invalidation
Continue(where) ==
  CASE where = "return" -> Return(Nil) /\ li' = li
    [] where = "GetReviews" -> pc' = "GetReviews" /\ ret' = ret /\ li' = li
    [] where = "GetTranslation" -> pc' = "GetTranslation" /\ ret' = ret /\ li' = li
    [] where = "NextLang" ->
         IF li < Len(Langs)
           THEN pc' = "GetTranslation" /\ ret' = ret /\ li' = li + 1
           ELSE Return(Nil) /\ li' = li

\* the driver hands the next id to IngestHotel
IngestStart ==
  /\ pc = "idle"
  /\ todo # <<>>
  /\ id' = Head(todo)
  /\ todo' = Tail(todo)
  /\ pc' = "GetProperty"
  /\ calls' = <<>>
  /\ fetchErr' = <<>>
  /\ li' = 1
  /\ p' = NoPayload /\ tr' = NoPayload /\ revs' = <<>>
  /\ miss' = NoMiss /\ dels' = <<>> /\ after' = "return"
  /\ UNCHANGED <<mapVars, ret, upstream, faultsLeft, storeVars, cache, readerVars, clientVars, driverVars>>

\* the branches every fetch step shares: record a miss and invalidate
\* (404 / 401 / 403), or give the error back
OnFetchError(e, reason404, reason403, keys, where) ==
  /\ fetchErr' = Append(fetchErr, e)
  /\ IF ClassNotFound(e)
       THEN /\ miss' = [status |-> 404, reason |-> reason404]
            /\ dels' = keys /\ after' = where
            /\ pc' = "LogMiss" /\ ret' = ret
       ELSE IF ClassAuth(e)
       THEN /\ miss' = [status |-> 403, reason |-> reason403]
            /\ dels' = keys /\ after' = where
            /\ pc' = "LogMiss" /\ ret' = ret
       ELSE /\ Return(e)
            /\ UNCHANGED <<miss, dels, after>>

\* 1) p, err := s.cupid.GetProperty(ctx, id)
GetPropertyStep ==
  /\ pc = "GetProperty"
  /\ \E e \in FetchOutcomes(upstream.prop.present) :
       /\ Spend(e)
       /\ calls' = Append(calls, Call("GetProperty", "", id, NoKey, e))
       /\ IF e = Nil
            THEN /\ p' = upstream.prop.payload
                 /\ pc' = "UpsertProperty"
                 /\ UNCHANGED <<ret, miss, dels, after, fetchErr>>
            ELSE /\ OnFetchError(e, "not found", "inactive",
                                 InvalidateAllKeys(id) \o InvalidateReviewsKeys(id), "return")
                 /\ p' = p
  /\ UNCHANGED <<mapVars, upstream, storeVars, cache, todo, id, revs, li, tr, readerVars, clientVars, driverVars>>

\* _ = s.repo.LogMiss(ctx, id, status, reason): the error is dropped
LogMissStep ==
  /\ pc = "LogMiss"
  /\ \E f \in PortOutcomes :
       /\ Spend(f)
       /\ misses' = IF f = Nil THEN LogMissRows(misses, id, miss.status, miss.reason) ELSE misses
       /\ calls' = Append(calls, Call("LogMiss", miss.reason, miss.status, NoKey, f))
  /\ pc' = "Del"
  /\ UNCHANGED <<mapVars, upstream, properties, i18n, reviews, cache, todo, id, p, revs, li, tr,
                 miss, dels, after, ret, fetchErr, readerVars, clientVars, driverVars>>

\* a delete whose error is handed back to the caller
DelChecked(f) == f

\* _ = s.cache.Del(ctx, ...): the error is discarded
DelError(f) == Nil

\* _ = s.cache.Del(ctx, key): one key of the running invalidation
DelStep ==
  /\ pc = "Del"
  /\ \E f \in PortOutcomes :
       /\ Spend(f)
       /\ cache' = IF f = Nil THEN CacheDel(cache, Head(dels)) ELSE cache
       /\ calls' = Append(calls, Call("Del", "", CacheRemoved(cache, Head(dels), f), Head(dels), f))
       /\ IF DelError(f) # Nil
            THEN Return(DelError(f)) /\ li' = li /\ dels' = dels
            ELSE /\ dels' = Tail(dels)
                 /\ IF Tail(dels) = <<>> THEN Continue(after)
                                         ELSE pc' = "Del" /\ ret' = ret /\ li' = li
  /\ UNCHANGED <<mapVars, upstream, storeVars, todo, id, p, revs, tr, miss, after, fetchErr, readerVars, clientVars, driverVars>>

\* s.repo.UpsertProperty(ctx, mapProperty(p)), then invalidateHotelAllLangs
UpsertPropertyStep ==
  /\ pc = "UpsertProperty"
  /\ \E f \in PortOutcomes :
       /\ Spend(f)
       /\ calls' = Append(calls, Call("UpsertProperty", "", mapProperty(p).ID, NoKey, f))
       /\ IF WriteOk(f)
            THEN /\ properties' = UpsertPropertyRows(properties, mapProperty(p))
                 /\ dels' = InvalidateAllKeys(id) /\ after' = "GetReviews"
                 /\ pc' = "Del" /\ ret' = ret
            ELSE /\ Return(f)
                 /\ UNCHANGED <<properties, dels, after>>
  /\ UNCHANGED <<mapVars, upstream, i18n, reviews, misses, cache, todo, id, p, revs, li, tr,
                 miss, fetchErr, readerVars, clientVars, driverVars>>

\* 2) revs, rerr := s.cupid.GetReviews(ctx, id, reviewCount)
GetReviewsStep ==
  /\ pc = "GetReviews"
  /\ \E e \in FetchOutcomes(upstream.revs.present) :
       /\ Spend(e)
       /\ calls' = Append(calls, Call("GetReviews", "", id, NoKey, e))
       /\ IF e = Nil
            THEN /\ revs' = upstream.revs.docs
                 /\ IF HasReviews(upstream.revs.docs)
                      THEN pc' = "UpsertReviews" /\ UNCHANGED <<dels, after>>
                      ELSE /\ pc' = "Del"
                           /\ dels' = InvalidateReviewsKeys(id) /\ after' = "GetTranslation"
                 /\ UNCHANGED <<ret, miss, fetchErr>>
            ELSE /\ OnFetchError(e, "reviews", "reviews",
                                 InvalidateReviewsKeys(id), "GetTranslation")
                 /\ revs' = revs
  /\ UNCHANGED <<mapVars, upstream, storeVars, cache, todo, id, p, li, tr, readerVars, clientVars, driverVars>>

\* s.repo.UpsertReviews(ctx, mapReviews(id, revs)), then invalidateReviews
UpsertReviewsStep ==
  /\ pc = "UpsertReviews"
  /\ \E f \in PortOutcomes :
       LET res == IF f # Nil THEN f
                  ELSE IF ~ParentExists(properties, id) THEN ErrFK ELSE Nil IN
       /\ Spend(f)
       /\ calls' = Append(calls, Call("UpsertReviews", "", Len(revs), NoKey, res))
       /\ IF WriteOk(res)
            THEN /\ reviews' = UpsertReviewRows(reviews, mapReviews(id, revs))
                 /\ dels' = InvalidateReviewsKeys(id) /\ after' = "GetTranslation"
                 /\ pc' = "Del" /\ ret' = ret
            ELSE /\ Return(WrapUpsertReviews(res))
                 /\ UNCHANGED <<reviews, dels, after>>
  /\ UNCHANGED <<mapVars, upstream, properties, i18n, misses, cache, todo, id, p, revs, li, tr,
                 miss, fetchErr, readerVars, clientVars, driverVars>>

\* 3) tr, terr := s.cupid.GetTranslation(ctx, id, lang) for lang = Langs[li]
GetTranslationStep ==
  /\ pc = "GetTranslation"
  /\ \E e \in FetchOutcomes(upstream.tr[Langs[li]].present) :
       /\ Spend(e)
       /\ calls' = Append(calls, Call("GetTranslation", Langs[li], id, NoKey, e))
       /\ IF e = Nil
            THEN /\ tr' = upstream.tr[Langs[li]].payload
                 /\ pc' = "UpsertI18n"
                 /\ UNCHANGED <<ret, miss, dels, after, fetchErr>>
            ELSE /\ OnFetchError(e, "i18n:" \o Langs[li], "i18n:" \o Langs[li],
                                 InvalidateLangKeys(id, Langs[li]), "NextLang")
                 /\ tr' = tr
  /\ UNCHANGED <<mapVars, upstream, storeVars, cache, todo, id, p, revs, li, readerVars, clientVars, driverVars>>

\* s.repo.UpsertI18n(ctx, mapI18n(id, lang, tr)), then invalidateHotelLang
UpsertI18nStep ==
  /\ pc = "UpsertI18n"
  /\ \E f \in PortOutcomes :
       LET res == IF f # Nil THEN f
                  ELSE IF ~ParentExists(properties, id) THEN ErrFK ELSE Nil IN
       /\ Spend(f)
       /\ calls' = Append(calls, Call("UpsertI18n", Langs[li], id, NoKey, res))
       /\ IF WriteOk(res)
            THEN /\ i18n' = UpsertI18nRows(i18n, mapI18n(id, Langs[li], tr))
                 /\ dels' = InvalidateLangKeys(id, Langs[li]) /\ after' = "NextLang"
                 /\ pc' = "Del" /\ ret' = ret
            ELSE /\ Return(res)
                 /\ UNCHANGED <<i18n, dels, after>>
  /\ UNCHANGED <<mapVars, upstream, properties, reviews, misses, cache, todo, id, p, revs, li, tr,
                 miss, fetchErr, readerVars, clientVars, driverVars>>

\* between two batch runs the upstream review list changes
UpstreamChange ==
  /\ pc = "idle" /\ calls # <<>> /\ todo # <<>>
  /\ \E docs \in SeqsUpTo(MergeDocs, MaxReviews) :
       /\ docs # upstream.revs.docs
       /\ upstream' = [upstream EXCEPT !.revs.docs = docs]
  /\ UNCHANGED <<mapVars, faultsLeft, storeVars, cache, ingestVars, readerVars, clientVars, driverVars>>

IngestHotel ==
  \/ GetPropertyStep
  \/ LogMissStep
  \/ DelStep
  \/ UpsertPropertyStep
  \/ GetReviewsStep
  \/ UpsertReviewsStep
  \/ GetTranslationStep
  \/ UpsertI18nStep

\* ----------------------------------------------- QueryService.GetHotel (steps)

NoView == [ID |-> 0, pver |-> -1, iver |-> -1, Language |-> ""]
Result(view, err, hit) == [view |-> view, err |-> err, hit |-> hit]
NoResult == Result(NoView, Nil, FALSE)

\* key := ...; if ok, _ := s.cache.Get(ctx, key, &hv); ok { return hv, nil }
GetHotelCacheGet ==
  /\ rpc = "idle"
  /\ readsLeft > 0
  /\ readsLeft' = readsLeft - 1
  /\ \E h \in HotelIds, l \in LangSet, f \in PortOutcomes :
       /\ Spend(f)
       /\ rid' = h /\ rlang' = l /\ rpg' = NoPage
       /\ IF f = Nil /\ CacheHit(cache, GetHotelKey(h, l))
            THEN rret' = Result(cache[GetHotelKey(h, l)], Nil, TRUE) /\ rpc' = "idle"
            ELSE rret' = rret /\ rpc' = "repo"
  /\ UNCHANGED <<mapVars, upstream, storeVars, cache, ingestVars, clientVars, driverVars, rh>>

\* h, err := s.repo.GetHotel(ctx, id, lang); if err != nil { return ..., err }
GetHotelRepo ==
  /\ rpc = "repo"
  /\ \E f \in PortOutcomes :
       /\ Spend(f)
       /\ IF f # Nil
            THEN rret' = Result(NoView, f, FALSE) /\ rpc' = "idle" /\ rh' = rh
            ELSE IF HasView(properties, rid)
            THEN rh' = View(properties, i18n, rid, rlang) /\ rpc' = "set" /\ rret' = rret
            ELSE /\ rret' = Result(NoView, Err("domain.notfound", 0, <<>>), FALSE)
                 /\ rpc' = "idle" /\ rh' = rh
  /\ UNCHANGED <<mapVars, upstream, storeVars, cache, ingestVars, clientVars, driverVars, rid, rlang, readsLeft, rpg>>

\* _ = s.cache.Set(ctx, key, h, ttl); return h, nil
GetHotelCacheSet ==
  /\ rpc = "set"
  /\ \E f \in PortOutcomes :
       /\ Spend(f)
       /\ cache' = IF f = Nil THEN CacheSet(cache, GetHotelKey(rid, rlang), rh) ELSE cache
  /\ rret' = Result(rh, Nil, FALSE)
  /\ rpc' = "idle"
  /\ UNCHANGED <<mapVars, upstream, storeVars, ingestVars, clientVars, driverVars, rid, rlang, rh, readsLeft, rpg>>

GetHotel ==
  \/ GetHotelCacheGet
  \/ GetHotelRepo
  \/ GetHotelCacheSet

\* ------------------------------------------- QueryService.ListReviews (steps)

\* key := ...; if ok, _ := s.cache.Get(ctx, key, &out); ok { return out, nil }
ListReviewsCacheGet ==
  /\ rpc = "idle"
  /\ readsLeft > 0
  /\ readsLeft' = readsLeft - 1
  /\ \E h \in HotelIds, pg \in PageQueries, f \in PortOutcomes :
       /\ Spend(f)
       /\ rid' = h /\ rlang' = "" /\ rpg' = pg
       /\ IF f = Nil /\ CacheHit(cache, ListReviewsKey(h, pg))
            THEN rret' = Result(cache[ListReviewsKey(h, pg)], Nil, TRUE) /\ rpc' = "idle"
            ELSE rret' = rret /\ rpc' = "lrepo"
  /\ UNCHANGED <<mapVars, upstream, storeVars, cache, ingestVars, clientVars, driverVars, rh>>

\* rs, err := s.repo.ListReviews(ctx, id, pg); if err != nil { return ..., err }
ListReviewsRepo ==
  /\ rpc = "lrepo"
  /\ \E f \in PortOutcomes :
       /\ Spend(f)
       /\ IF f # Nil
            THEN rret' = Result(NoView, f, FALSE) /\ rpc' = "idle" /\ rh' = rh
            ELSE rh' = ReviewsPage(reviews, rid, rpg) /\ rpc' = "lset" /\ rret' = rret
  /\ UNCHANGED <<mapVars, upstream, storeVars, cache, ingestVars, clientVars, driverVars, rid, rlang,
                 readsLeft, rpg>>

\* if len(json) < 1_000_000 { _ = s.cache.Set(ctx, key, copyRS, ttl) }; return copyRS, nil
ListReviewsCacheSet ==
  /\ rpc = "lset"
  /\ \E f \in PortOutcomes, fits \in BOOLEAN :
       /\ Spend(IF fits THEN f ELSE Nil)
       /\ cache' = IF fits /\ f = Nil
                     THEN CacheSet(cache, ListReviewsKey(rid, rpg), rh) ELSE cache
  /\ rret' = Result(rh, Nil, FALSE)
  /\ rpc' = "idle"
  /\ UNCHANGED <<mapVars, upstream, storeVars, ingestVars, clientVars, driverVars, rid, rlang, rh,
                 readsLeft, rpg>>

ListReviews ==
  \/ ListReviewsCacheGet
  \/ ListReviewsRepo
  \/ ListReviewsCacheSet

\* ---------------------------------------- writes by the ingestor's process
\* What the read API sees of an ingestion running in another process: its
\* repository writes.

\* Repo.UpsertProperty of new content for a stored id
RepoUpsertProperty ==
  /\ \E h \in DOMAIN properties :
       /\ properties[h].ver < MaxChanges
       /\ properties' = UpsertPropertyRows(properties, [ID |-> h, ver |-> properties[h].ver + 1])
  /\ UNCHANGED <<mapVars, upstream, faultsLeft, i18n, reviews, misses, cache, ingestVars, readerVars,
                 clientVars, driverVars>>

\* Repo.UpsertReviews of one new review of a stored id
RepoUpsertReviews ==
  /\ Len(reviews) < MaxReviews
  /\ \E h \in DOMAIN properties, d \in ReviewDocs :
       reviews' = UpsertReviewRows(reviews, mapReviews(h, <<d>>))
  /\ UNCHANGED <<mapVars, upstream, faultsLeft, properties, i18n, misses, cache, ingestVars, readerVars,
                 clientVars, driverVars>>

\* ------------------------------------------- cupid.Client: getFirst and get
\* One resource call (GetProperty, GetReviews or GetTranslation) against a
\* server that may answer each request with any response.

\* one attempt more than the loop of get makes
FiveAttempts == 4 + 1
\* for i := 0; i < 4; i++
MaxAttempts == 4

\* candidate URLs built by GetProperty, GetReviews, GetTranslation; getFirst
\* itself also takes the empty list
CandidateCounts == {0, 2, 3, 4}

Response(kind, code, json, body) ==
  [kind |-> kind, code |-> code, json |-> json, body |-> body, live |-> TRUE]
NoResponse == Response("none", 0, FALSE, <<>>)
\* what hc.Do can hand back: a status with a body, or a network error
Responses ==
  { Response("status", c, j, <<>>) : c \in {200, 201}, j \in BOOLEAN }
    \cup { Response("status", c, FALSE, <<>>) : c \in {204, 404, 401, 403, 429, 500, 503} }
    \cup { Response("status", 418, FALSE, b) : b \in Bodies }
    \cup { Response("neterr", 0, FALSE, <<>>) }

\* a test that also lets forbidden fall through to the next candidate
IsNotFoundOrForbidden(e) == e.kind \in {"notfound", "forbidden"}
\* errors.Is(err, ErrNotFound) as getFirst tests it
IsNotFound(e) == e.kind = "notfound"

\* an iteration that skips every other candidate
SkipCandidate(k) == k + 2
\* a loop that stays on the candidate in hand
SameCandidate(k) == k
\* for _, u := range urls
NextCandidate(k) == k + 1

\* case 429, 500, 502, 503, 504 of the switch in get
RetryStatus(code) == code \in {429, 500, 502, 503, 504}

\* i < 3 in get
MayRetry(i) == i < MaxAttempts - 1

Got(k, e) == [cand |-> k, err |-> e]

\* a decode that leaves out as it was
LeaveOutUntouched(k) == 0
\* json.NewDecoder(resp.Body).Decode(out): out holds the body of candidate k
DecodeInto(k) == k

\* a context whose cancellation goes unnoticed
CtxErrIgnored(c) == Nil
\* ctx.Err()
CtxErr(c) == IF c = "canceled" THEN ErrCanceled ELSE Nil

\* a Retry-After header: absent, decimal seconds, an HTTP date (n: seconds
\* from now to the date), or text that is neither
Header(form, n) == [form |-> form, n |-> n]
NoHeader == Header("absent", 0)
Headers ==
  { NoHeader, Header("secs", -1), Header("secs", 0), Header("secs", 2),
    Header("date", -5), Header("date", 3), Header("junk", 0) }

\* retryAfter, in milliseconds: 0 if absent/invalid.  strconv.Atoi reads
\* "-1" but secs >= 0 fails, and http.ParseTime then rejects it
retryAfter(h) ==
  CASE h.form = "absent" -> 0
    [] h.form = "secs" -> IF h.n >= 0 THEN h.n * 1000 ELSE 0
    [] h.form = "date" -> IF h.n > 0 THEN h.n * 1000 ELSE 0
    [] OTHER -> 0

\* the byte crypto/rand hands to backoff
JitterBytes == {0, 255}
\* backoff(i): base 200ms << i plus 0.5 * (b / 255) * base
backoff(i, b) ==
  LET base == (2 ^ i) * 200 IN base + (b * base) \div 510

\* wait := retryAfter(resp); if wait == 0 { wait = backoff(i) }
RetryWait(h, i, b) == IF retryAfter(h) = 0 THEN backoff(i, b) ELSE retryAfter(h)

\* an end of the list that hands back last even when it is nil
EndWithLast(l) == l
\* getFirst after the loop: last if set, else "no candidate URL succeeded"
GetFirstEnd(l) == IF l # Nil THEN l ELSE ErrNoCandidate

\* getFirst: what it does with the error get returned
GetFirstOn(e) ==
  /\ gets' = Append(gets, Got(cand, e))
  /\ IF e = Nil
       THEN result' = Nil /\ cpc' = "done" /\ UNCHANGED <<cand, last>>
       ELSE IF IsNotFound(e)
       THEN /\ last' = e
            /\ IF NextCandidate(cand) <= candidates
                 THEN cand' = NextCandidate(cand) /\ cpc' = "wait" /\ result' = result
                 ELSE cand' = cand /\ cpc' = "done" /\ result' = GetFirstEnd(e)
       ELSE result' = e /\ cpc' = "done" /\ UNCHANGED <<cand, last>>

\* GetProperty / GetReviews / GetTranslation: build the candidates, getFirst
ResourceCall ==
  /\ cpc = "start"
  /\ \E n \in CandidateCounts :
       /\ candidates' = n
       /\ IF 1 <= n
            THEN cpc' = "wait" /\ result' = result
            ELSE cpc' = "done" /\ result' = GetFirstEnd(last)
  /\ cand' = 1
  /\ UNCHANGED <<last, gets, out, attempt, lastErr, resp, resps, sent, waits, ctx, hdr, wait>>
  /\ UNCHANGED <<mapVars, upstream, faultsLeft, storeVars, cache, ingestVars, readerVars, driverVars>>

\* get: if err := c.rl.Wait(ctx); err != nil { return err }
LimiterWait ==
  /\ cpc = "wait"
  /\ IF ctx = "canceled"
       THEN GetFirstOn(ErrCanceled) /\ UNCHANGED <<waits, attempt, resps, lastErr>>
       ELSE \/ /\ waits' = waits + 1
               /\ attempt' = 0 /\ resps' = <<>> /\ lastErr' = Nil
               /\ cpc' = "do"
               /\ UNCHANGED <<cand, last, gets, result>>
            \/ /\ GetFirstOn(ErrLimiter)
               /\ UNCHANGED <<waits, attempt, resps, lastErr>>
  /\ UNCHANGED <<candidates, out, resp, sent, ctx, hdr, wait>>
  /\ UNCHANGED <<mapVars, upstream, faultsLeft, storeVars, cache, ingestVars, readerVars, driverVars>>

\* get: resp, err := c.hc.Do(req); with a cancelled context Do fails before
\* anything is sent, and the err != nil branch follows at once
DoRequest ==
  /\ cpc = "do"
  /\ IF ctx = "canceled"
       THEN /\ IF CtxErr(ctx) # Nil
                 THEN GetFirstOn(CtxErr(ctx)) /\ lastErr' = lastErr
                 ELSE /\ lastErr' = ErrNetwork /\ cpc' = "backoff"
                      /\ UNCHANGED <<cand, last, gets, result>>
            /\ UNCHANGED <<sent, resp>>
       ELSE /\ sent' = Append(sent, cand)
            /\ \E r \in Responses : resp' = r
            /\ cpc' = "handle"
            /\ UNCHANGED <<cand, last, gets, result, lastErr>>
  /\ UNCHANGED <<candidates, out, attempt, resps, waits, ctx, hdr, wait>>
  /\ UNCHANGED <<mapVars, upstream, faultsLeft, storeVars, cache, ingestVars, readerVars, driverVars>>

\* get: the err != nil branch up to lastErr = err, and the switch on the status
HandleResponse ==
  /\ cpc = "handle"
  /\ resps' = Append(resps, [resp EXCEPT !.live = (ctx = "live")])
  /\ resp' = NoResponse
  /\ IF resp.kind = "neterr"
       THEN IF CtxErr(ctx) # Nil
              THEN GetFirstOn(CtxErr(ctx)) /\ UNCHANGED <<lastErr, out, hdr, wait>>
              ELSE /\ lastErr' = ErrNetwork /\ cpc' = "backoff"
                   /\ hdr' = NoHeader
                   /\ \E b \in JitterBytes : wait' = backoff(attempt, b)
                   /\ UNCHANGED <<cand, last, gets, result, out>>
       ELSE IF resp.code \in {200, 201, 202}
       THEN IF resp.json
              THEN GetFirstOn(Nil) /\ out' = DecodeInto(cand) /\ UNCHANGED <<lastErr, hdr, wait>>
              ELSE GetFirstOn(ErrDecode) /\ UNCHANGED <<lastErr, out, hdr, wait>>
       ELSE IF resp.code = 204 THEN GetFirstOn(Nil) /\ UNCHANGED <<lastErr, out, hdr, wait>>
       ELSE IF resp.code = 404 THEN GetFirstOn(ErrNotFound) /\ UNCHANGED <<lastErr, out, hdr, wait>>
       ELSE IF resp.code = 401 THEN GetFirstOn(ErrUnauthorized) /\ UNCHANGED <<lastErr, out, hdr, wait>>
       ELSE IF resp.code = 403 THEN GetFirstOn(ErrForbidden) /\ UNCHANGED <<lastErr, out, hdr, wait>>
       ELSE IF RetryStatus(resp.code)
       THEN /\ lastErr' = ErrRemote(resp.code) /\ cpc' = "backoff"
            /\ \E h \in Headers, b \in JitterBytes :
                 hdr' = h /\ wait' = RetryWait(h, attempt, b)
            /\ UNCHANGED <<cand, last, gets, result, out>>
       ELSE GetFirstOn(ErrBadStatus(resp.code, resp.body)) /\ UNCHANGED <<lastErr, out, hdr, wait>>
  /\ UNCHANGED <<candidates, attempt, sent, waits, ctx>>
  /\ UNCHANGED <<mapVars, upstream, faultsLeft, storeVars, cache, ingestVars, readerVars, driverVars>>

\* get: if i < 3 && sleepCtx(ctx, wait) { continue }
\*      if ctx.Err() != nil { return ctx.Err() }; return lastErr
\* sleepCtx returns true when its timer fires; its select may take the
\* timer even when ctx.Done() is ready as well
Backoff ==
  /\ cpc = "backoff"
  /\ \/ /\ MayRetry(attempt)
        /\ IF attempt + 1 < MaxAttempts
             THEN /\ attempt' = attempt + 1 /\ cpc' = "do"
                  /\ UNCHANGED <<cand, last, gets, result>>
             ELSE GetFirstOn(lastErr) /\ attempt' = attempt + 1
     \/ /\ ~MayRetry(attempt) \/ ctx = "canceled"
        /\ GetFirstOn(IF CtxErr(ctx) # Nil THEN CtxErr(ctx) ELSE lastErr)
        /\ attempt' = attempt
  /\ hdr' = NoHeader /\ wait' = 0
  /\ UNCHANGED <<candidates, out, lastErr, resp, resps, sent, waits, ctx>>
  /\ UNCHANGED <<mapVars, upstream, faultsLeft, storeVars, cache, ingestVars, readerVars, driverVars>>

\* the caller cancels the context while the call is running
Cancel ==
  /\ cpc \in {"wait", "do", "handle", "backoff"}
  /\ ctx = "live"
  /\ ctx' = "canceled"
  /\ UNCHANGED <<candidates, cand, last, gets, result, out, cpc, attempt, lastErr, resp,
                 resps, sent, waits, hdr, wait>>
  /\ UNCHANGED <<mapVars, upstream, faultsLeft, storeVars, cache, ingestVars, readerVars, driverVars>>

ClientIdle(at) ==
  /\ candidates = 0 /\ cand = 0 /\ last = Nil /\ gets = <<>> /\ result = Nil /\ out = 0
  /\ cpc = at /\ attempt = 0 /\ lastErr = Nil /\ resp = NoResponse /\ resps = <<>>
  /\ sent = <<>> /\ waits = 0 /\ ctx = "live" /\ hdr = NoHeader /\ wait = 0

\* --------------------------------------------------- cmd/ingestor: main
\* The batch driver: a weighted semaphore of cfg.Workers slots, one goroutine
\* per id of shared.PropertyIDs, a WaitGroup.  Its context is
\* context.Background(), so sem.Acquire can only block, never fail.  What a
\* goroutine's IngestHotel does to store and cache is Spec's; here only its
\* return matters.

\* shared.PropertyIDs: distinct ids
PropertyIDs == [k \in 1..MaxTasks |-> k]
WorkerCounts == 0..MaxWorkers

Task(at, outcome, started, released) ==
  [pc |-> at, outcome |-> outcome, started |-> started, released |-> released]
NoTask == Task("none", "none", 0, 0)

\* a semaphore that admits one holder too many
SemOffByOne(held, size) == held <= size
\* semaphore.Weighted.Acquire(ctx, 1) goes through when size - cur >= 1
SemAvailable(held, size) == held < size

\* a loop that skips every other id
SkipIndex(k) == k + 2
\* for _, id := range shared.PropertyIDs
NextIndex(k) == k + 1

\* if err := sem.Acquire(ctx, 1): blocks until a slot is free
DriverAcquire ==
  /\ dpc = "acquire"
  /\ SemAvailable(sem, workers)
  /\ sem' = sem + 1
  /\ dpc' = "spawn"
  /\ UNCHANGED <<workers, wg, dnext, tasks>>
  /\ UNCHANGED <<mapVars, upstream, faultsLeft, storeVars, cache, ingestVars, readerVars, clientVars>>

\* wg.Add(1); go func(hotelID int64) {...}(id); next iteration
DriverSpawn ==
  /\ dpc = "spawn"
  /\ wg' = wg + 1
  /\ tasks' = [tasks EXCEPT ![dnext] =
                 Task("ingest", "none", tasks[dnext].started + 1, tasks[dnext].released)]
  /\ dnext' = NextIndex(dnext)
  /\ dpc' = IF NextIndex(dnext) <= Len(PropertyIDs) THEN "acquire" ELSE "wait"
  /\ UNCHANGED <<workers, sem>>
  /\ UNCHANGED <<mapVars, upstream, faultsLeft, storeVars, cache, ingestVars, readerVars, clientVars>>

\* the goroutine: err := ing.IngestHotel(ctx, hotelID, cfg.ReviewCount), logged
TaskIngest ==
  /\ \E k \in DOMAIN tasks, o \in {"ok", "err"} :
       /\ tasks[k].pc = "ingest"
       /\ tasks' = [tasks EXCEPT ![k].pc = "release", ![k].outcome = o]
  /\ UNCHANGED <<workers, sem, wg, dpc, dnext>>
  /\ UNCHANGED <<mapVars, upstream, faultsLeft, storeVars, cache, ingestVars, readerVars, clientVars>>

\* the goroutine: defer sem.Release(1)
TaskRelease ==
  /\ \E k \in DOMAIN tasks :
       /\ tasks[k].pc = "release"
       /\ tasks' = [tasks EXCEPT ![k].pc = "wgdone", ![k].released = @ + 1]
  /\ sem' = sem - 1
  /\ UNCHANGED <<workers, wg, dpc, dnext>>
  /\ UNCHANGED <<mapVars, upstream, faultsLeft, storeVars, cache, ingestVars, readerVars, clientVars>>

\* the goroutine: defer wg.Done()
TaskDone ==
  /\ \E k \in DOMAIN tasks :
       /\ tasks[k].pc = "wgdone"
       /\ tasks' = [tasks EXCEPT ![k].pc = "finished"]
  /\ wg' = wg - 1
  /\ UNCHANGED <<workers, sem, dpc, dnext>>
  /\ UNCHANGED <<mapVars, upstream, faultsLeft, storeVars, cache, ingestVars, readerVars, clientVars>>

\* wg.Wait(); log "ingestion completed"
DriverWait ==
  /\ dpc = "wait"
  /\ wg = 0
  /\ dpc' = "completed"
  /\ UNCHANGED <<workers, sem, wg, dnext, tasks>>
  /\ UNCHANGED <<mapVars, upstream, faultsLeft, storeVars, cache, ingestVars, readerVars, clientVars>>

DriverIdle(at) ==
  /\ sem = 0 /\ wg = 0 /\ dpc = at /\ dnext = 1
  /\ tasks = [k \in 1..Len(PropertyIDs) |-> NoTask]

\* ------------------------------------------- mapProperty on a document
\* A document is a JSON object decoded into map[string]any: every key holds
\* nothing, a string (a sequence of tokens, " " being white space), a number
\* (in tenths) or a nested object.

Leaf(t, s, n) == [t |-> t, s |-> s, n |-> n]
None == Leaf("none", <<>>, 0)
Str(s) == Leaf("str", s, 0)
Num(n) == Leaf("num", <<>>, n)

TopKeys ==
  { "address_raw", "address", "full_address", "location", "formatted_address",
    "street", "city", "postcode", "zip", "country", "countryCode", "country_code",
    "locality", "town", "stars", "rating" }
SubKeys ==
  { "line", "addressLine1", "addressLine2", "street", "district", "city", "state",
    "postcode", "zip", "country", "address", "stars" }

Scalar(l) == [t |-> l.t, s |-> l.s, n |-> l.n, m |-> [k \in SubKeys |-> None]]
Object(f) ==
  [t |-> "map", s |-> <<>>, n |-> 0,
   m |-> [k \in SubKeys |-> IF k \in DOMAIN f THEN f[k] ELSE None]]
Document(f) == [k \in TopKeys |-> IF k \in DOMAIN f THEN f[k] ELSE Scalar(None)]

\* *string and *float64 / *int
NilStr == [ok |-> FALSE, v |-> <<>>]
PtrStr(s) == [ok |-> TRUE, v |-> s]
NilNum == [ok |-> FALSE, v |-> 0]
PtrNum(n) == [ok |-> TRUE, v |-> n]

\* lookupAny: dot paths of one or two parts; nil unless every part but the
\* last is an object
lookupAny(d, path) ==
  IF Len(path) = 1
    THEN Leaf(d[path[1]].t, d[path[1]].s, d[path[1]].n)
    ELSE IF d[path[1]].t = "map" THEN d[path[1]].m[path[2]] ELSE None

\* lookupStr: the string at path or ""
lookupStr(d, path) == IF lookupAny(d, path).t = "str" THEN lookupAny(d, path).s ELSE <<>>

\* a resolution that prefers the last candidate
RECURSIVE lastNonEmptyAlias(_, _)
lastNonEmptyAlias(d, paths) ==
  IF paths = <<>> THEN NilStr
  ELSE IF lastNonEmptyAlias(d, Tail(paths)).ok THEN lastNonEmptyAlias(d, Tail(paths))
  ELSE IF lookupStr(d, Head(paths)) # <<>> THEN PtrStr(lookupStr(d, Head(paths)))
  ELSE NilStr

\* firstNonEmptyAlias over aliases[key]
RECURSIVE firstNonEmptyAlias(_, _)
firstNonEmptyAlias(d, paths) ==
  IF paths = <<>> THEN NilStr
  ELSE IF lookupStr(d, Head(paths)) # <<>> THEN PtrStr(lookupStr(d, Head(paths)))
  ELSE firstNonEmptyAlias(d, Tail(paths))

\* strings.TrimSpace
TrimSpace(s) ==
  LET RECURSIVE TrimLeft(_)
      TrimLeft(x) == IF x # <<>> /\ Head(x) \in {" ", "\n"} THEN TrimLeft(Tail(x)) ELSE x
      RECURSIVE TrimRight(_)
      TrimRight(x) ==
        IF x # <<>> /\ x[Len(x)] \in {" ", "\n"}
          THEN TrimRight(SubSeq(x, 1, Len(x) - 1)) ELSE x
  IN TrimRight(TrimLeft(s))

\* strings.ReplaceAll(v, ",", ".")
ReplaceAll(s, from, to) == [k \in 1..Len(s) |-> IF s[k] = from THEN to ELSE s[k]]

\* strconv.ParseFloat on numerals of one integer digit and at most one
\* fractional digit; anything else is an error
ParseFloat(s) ==
  LET Digits == <<"0", "1", "2", "3", "4", "5", "6", "7", "8", "9">>
      IsDigit(c) == \E k \in DOMAIN Digits : Digits[k] = c
      DigitOf(c) == (CHOOSE k \in DOMAIN Digits : Digits[k] = c) - 1
  IN
  IF Len(s) = 1 /\ IsDigit(s[1]) THEN PtrNum(10 * DigitOf(s[1]))
  ELSE IF Len(s) = 3 /\ IsDigit(s[1]) /\ s[2] = "." /\ IsDigit(s[3])
    THEN PtrNum(10 * DigitOf(s[1]) + DigitOf(s[3]))
  ELSE NilNum

\* getFloatFlexible
RECURSIVE getFloatFlexible(_, _)
getFloatFlexible(d, paths) ==
  IF paths = <<>> THEN NilNum
  ELSE LET v == lookupAny(d, Head(paths))
           t == TrimSpace(ReplaceAll(v.s, ",", "."))
       IN IF v.t = "num" THEN PtrNum(v.n)
          ELSE IF v.t = "str" /\ t # <<>> /\ ParseFloat(t).ok THEN ParseFloat(t)
          ELSE getFloatFlexible(d, Tail(paths))

\* strings.Join
RECURSIVE Join(_, _)
Join(parts, sep) ==
  IF parts = <<>> THEN <<>>
  ELSE IF Len(parts) = 1 THEN parts[1]
  ELSE parts[1] \o sep \o Join(Tail(parts), sep)

\* the alias lists mapProperty passes
CountryAliases == << <<"address", "country">>, <<"country">>, <<"countryCode">>, <<"country_code">> >>
CityAliases == << <<"address", "city">>, <<"city">>, <<"locality">>, <<"town">> >>
StarsPaths == << <<"stars">>, <<"rating", "stars">>, <<"rating">> >>
AddressAliases ==
  << <<"address_raw">>, <<"address">>, <<"address", "line">>, <<"full_address">>,
     <<"location", "address">>, <<"formatted_address">> >>

\* a component list with the root-level paths first
RootFirstPaths ==
  << <<"street">>, <<"city">>, <<"postcode">>, <<"zip">>, <<"country">>,
     <<"address", "addressLine1">>, <<"address", "addressLine2">>, <<"address", "street">>,
     <<"address", "district">>, <<"address", "city">>, <<"address", "state">>,
     <<"address", "postcode">>, <<"address", "zip">>, <<"address", "country">> >>
\* parts := []string{ lookupStr(p, "address.addressLine1"), ... }
ComponentPaths ==
  << <<"address", "addressLine1">>, <<"address", "addressLine2">>, <<"address", "street">>,
     <<"address", "district">>, <<"address", "city">>, <<"address", "state">>,
     <<"address", "postcode">>, <<"address", "zip">>, <<"address", "country">>,
     <<"street">>, <<"city">>, <<"postcode">>, <<"zip">>, <<"country">> >>

\* the loop that keeps the trimmed parts that are not empty
RECURSIVE NonEmptyParts(_, _)
NonEmptyParts(d, paths) ==
  IF paths = <<>> THEN <<>>
  ELSE IF TrimSpace(lookupStr(d, Head(paths))) # <<>>
    THEN <<TrimSpace(lookupStr(d, Head(paths)))>> \o NonEmptyParts(d, Tail(paths))
  ELSE NonEmptyParts(d, Tail(paths))

\* the AddressRaw closure of mapProperty
AddressRaw(d) ==
  LET single == firstNonEmptyAlias(d, AddressAliases)
      nonEmpty == NonEmptyParts(d, ComponentPaths)
  IN IF single.ok /\ single.v # <<>> THEN single
     ELSE IF Len(nonEmpty) > 0 THEN PtrStr(Join(nonEmpty, <<",", " ">>))
     ELSE NilStr

\* mapProperty: the fields resolved from the document
mapPropertyFields(d) ==
  [ Country |-> firstNonEmptyAlias(d, CountryAliases),
    City |-> firstNonEmptyAlias(d, CityAliases),
    Stars |-> IF getFloatFlexible(d, StarsPaths).ok
                THEN PtrNum(getFloatFlexible(d, StarsPaths).v \div 10)
                ELSE NilNum,
    AddressRaw |-> AddressRaw(d) ]

NoHotel == [Country |-> NilStr, City |-> NilStr, Stars |-> NilNum, AddressRaw |-> NilStr]

\* the documents the upstream may serve
Documents ==
  { Document([address |-> a, address_raw |-> r, city |-> c, country |-> y,
              stars |-> st, rating |-> rt]) :
      a \in { Scalar(None), Scalar(Str(<<>>)), Scalar(Str(<<"Rue">>)) }
              \cup { Object([line |-> l, city |-> ac, country |-> ay]) :
                       l \in {None, Str(<<"Line">>)},
                       ac \in {None, Str(<<"Izmir">>), Str(<<" ">>)},
                       ay \in {None, Str(<<"FR">>)} },
      r \in { Scalar(None), Scalar(Str(<<"Raw">>)) },
      c \in { Scalar(None), Scalar(Str(<<>>)), Scalar(Str(<<"Istanbul">>)),
              Scalar(Str(<<" ", "Istanbul">>)) },
      y \in { Scalar(None), Scalar(Str(<<"TR">>)), Scalar(Num(900)) },
      st \in { Scalar(None), Scalar(Num(40)), Scalar(Str(<<"4", ",", "5">>)),
               Scalar(Str(<<"x">>)), Scalar(Str(<<" ">>)) },
      rt \in { Scalar(None), Scalar(Num(30)), Object([stars |-> Num(50)]) } }

\* h := mapProperty(p)
MapProperty ==
  /\ mpc = "doc"
  /\ hotel' = mapPropertyFields(mdoc)
  /\ mpc' = "mapped"
  /\ UNCHANGED <<mdoc, rdoc, rtext, upstream, faultsLeft, storeVars, cache, ingestVars,
                 readerVars, clientVars, driverVars>>

\* ------------------------------------------- mapReviews on a document

\* reviewAliases["text"]
TextAliases ==
  << <<"text">>, <<"review_text">>, <<"review">>, <<"comment">>, <<"content">>,
     <<"body">>, <<"message">> >>
ReviewFields ==
  { "text", "review_text", "review", "comment", "content", "body", "message",
    "pros", "cons" }
ReviewDocument(f) == [k \in ReviewFields |-> IF k \in DOMAIN f THEN f[k] ELSE Scalar(None)]

\* "Pros: " + pros
Label(l, s) == <<l, " ">> \o s

\* mapReviews: rv.Text, the first text alias or else the pros/cons lines
mapReviewText(d) ==
  LET pros == lookupStr(d, <<"pros">>)
      cons == lookupStr(d, <<"cons">>)
      joined == TrimSpace(Join(<< TrimSpace(Label("Pros:", pros)),
                                  TrimSpace(Label("Cons:", cons)) >>, <<"\n">>))
  IN IF firstNonEmptyAlias(d, TextAliases).ok THEN firstNonEmptyAlias(d, TextAliases)
     ELSE IF (pros # <<>> \/ cons # <<>>) /\ joined # <<>> THEN PtrStr(joined)
     ELSE NilStr

\* the review documents the upstream may serve
ReviewDocuments ==
  { ReviewDocument([text |-> t, comment |-> c, pros |-> pr, cons |-> co]) :
      t \in { Scalar(None), Scalar(Str(<<>>)), Scalar(Str(<<"Fine">>)) },
      c \in { Scalar(None), Scalar(Str(<<"Nice">>)) },
      pr \in { Scalar(None), Scalar(Str(<<>>)), Scalar(Str(<<" ">>)),
               Scalar(Str(<<"pool">>)), Scalar(Num(10)) },
      co \in { Scalar(None), Scalar(Str(<<>>)), Scalar(Str(<<" ">>)),
               Scalar(Str(<<"noisy">>)), Scalar(Num(10)) } }

\* out := mapReviews(id, []map[string]any{r})
MapReview ==
  /\ mpc = "review"
  /\ rtext' = mapReviewText(rdoc)
  /\ mpc' = "mapped"
  /\ UNCHANGED <<mdoc, hotel, rdoc, upstream, faultsLeft, storeVars, cache, ingestVars,
                 readerVars, clientVars, driverVars>>

\* no document in hand
NoDocument == <<>>

MapIdle(at) ==
  /\ mdoc = NoDocument /\ hotel = NoHotel /\ mpc = at
  /\ rdoc = NoDocument /\ rtext = NilStr

\* ---------------------------------------------------------- initial states

EmptyFn == [x \in {} |-> 0]

\* the upstream API's content: ver 1 everywhere
Upstream(propPresent, idf, revsPresent, docs, absentLangs) ==
  [ prop |-> [present |-> propPresent, payload |-> Payload(idf, 1)],
    revs |-> [present |-> revsPresent, docs |-> docs],
    tr |-> [l \in LangSet |-> [present |-> l \notin absentLangs, payload |-> Payload(0, 1)]] ]

\* rows an earlier ingestion of h left behind (ver 0)
SeededProperties(h) == [k \in {h} |-> [ver |-> 0]]
SeededI18n(h) == [k \in {<<h, l>> : l \in LangSet} |-> [ver |-> 0]]

\* entries an earlier read left in the cache: the views of the languages in
\* ls, and the default review listing when pg is set
SeededCache(h, ls, pg) ==
  [ k \in {GetHotelKey(h, l) : l \in ls}
          \cup (IF pg THEN {InvalidateReviewsKeys(h)[1]} ELSE {}) |->
      IF k.ns = "hotel"
        THEN View(SeededProperties(h), SeededI18n(h), h, k.lang)
        ELSE [Items |-> <<>>] ]

IngestIdle ==
  /\ pc = "idle" /\ id = 0 /\ p = NoPayload /\ tr = NoPayload /\ revs = <<>>
  /\ li = 1 /\ miss = NoMiss /\ dels = <<>> /\ after = "return"
  /\ ret = Nil /\ fetchErr = <<>> /\ calls = <<>>

ReaderIdle(n) ==
  /\ rpc = "idle" /\ rid = 0 /\ rlang = "" /\ rh = NoView /\ rret = NoResult
  /\ readsLeft = n /\ rpg = NoPage

\* Spec: one ingestion of one id; anything upstream; an empty store, or a
\* store and cache that earlier runs and reads filled
Init ==
  /\ \E pp \in BOOLEAN, idf \in PayloadIds, rp \in BOOLEAN,
        docs \in SeqsUpTo({ReviewDoc("r1", "web", "good", "")}, MaxReviews),
        al \in {{}, {"fr"}} :
       /\ (~pp => idf = 0) /\ (~rp => docs = <<>>)
       /\ upstream = Upstream(pp, idf, rp, docs, al)
  /\ faultsLeft = MaxFaults
  /\ \E h \in HotelIds :
       /\ todo = <<h>>
       /\ \/ /\ properties = EmptyFn /\ i18n = EmptyFn /\ cache = EmptyFn
          \/ /\ properties = SeededProperties(h) /\ i18n = SeededI18n(h)
             /\ \E ls \in {{}, {"fr"}, LangSet}, pg \in BOOLEAN : cache = SeededCache(h, ls, pg)
  /\ reviews = <<>> /\ misses = EmptyFn
  /\ IngestIdle
  /\ ReaderIdle(0)
  /\ ClientIdle("off")
  /\ workers = 0 /\ DriverIdle("off")
  /\ MapIdle("off")

vars ==
  <<upstream, faultsLeft, storeVars, cache, ingestVars, readerVars, clientVars, driverVars,
    mapVars>>

Next ==
  \/ IngestStart
  \/ IngestHotel

Spec == Init /\ [][Next]_vars

\* SpecIdem: the driver ingests the same id twice (two batch runs) from one
\* upstream snapshot into an empty store; no port call fails
InitIdem ==
  /\ \E idf \in PayloadIds, docs \in SeqsUpTo(ReviewDocs, MaxReviews), al \in {{}, {"fr"}} :
       upstream = Upstream(TRUE, idf, TRUE, docs, al)
  /\ faultsLeft = 0
  /\ \E h \in HotelIds : todo = <<h, h>>
  /\ properties = EmptyFn /\ i18n = EmptyFn /\ cache = EmptyFn
  /\ reviews = <<>> /\ misses = EmptyFn
  /\ IngestIdle
  /\ ReaderIdle(0)
  /\ ClientIdle("off")
  /\ workers = 0 /\ DriverIdle("off")
  /\ MapIdle("off")

SpecIdem == InitIdem /\ [][Next]_vars

\* SpecConc: the store holds what an earlier run ingested (ver 0), upstream
\* has changed (ver 1), and the read API serves GetHotel while the id is
\* ingested once; no port call fails and nothing expires
InitConc ==
  /\ \E h \in HotelIds :
       /\ \E al \in {{}, {"es"}} : upstream = Upstream(TRUE, h, TRUE, <<ReviewDoc("r1", "web", "good", "")>>, al)
       /\ todo = <<h>>
       /\ properties = SeededProperties(h) /\ i18n = SeededI18n(h)
  /\ faultsLeft = 0
  /\ cache = EmptyFn
  /\ reviews = <<>> /\ misses = EmptyFn
  /\ IngestIdle
  /\ ReaderIdle(MaxReads)
  /\ ClientIdle("off")
  /\ workers = 0 /\ DriverIdle("off")
  /\ MapIdle("off")

NextConc ==
  \/ IngestStart
  \/ IngestHotel
  \/ GetHotel
  \/ ListReviews

SpecConc == InitConc /\ [][NextConc]_vars

\* SpecClient: one resource call of the upstream client; the server answers
\* every request as it likes and the caller may cancel at any moment
InitClient ==
  /\ upstream = Upstream(FALSE, 0, FALSE, <<>>, {})
  /\ faultsLeft = 0
  /\ todo = <<>>
  /\ properties = EmptyFn /\ i18n = EmptyFn /\ cache = EmptyFn
  /\ reviews = <<>> /\ misses = EmptyFn
  /\ IngestIdle
  /\ ReaderIdle(0)
  /\ ClientIdle("start")
  /\ workers = 0 /\ DriverIdle("off")
  /\ MapIdle("off")

NextClient ==
  \/ ResourceCall
  \/ LimiterWait
  \/ DoRequest
  \/ HandleResponse
  \/ Backoff
  \/ Cancel

SpecClient == InitClient /\ [][NextClient]_vars

\* SpecDriver: the ingestor's main over its id list, for every worker count
InitDriver ==
  /\ upstream = Upstream(FALSE, 0, FALSE, <<>>, {})
  /\ faultsLeft = 0
  /\ todo = <<>>
  /\ properties = EmptyFn /\ i18n = EmptyFn /\ cache = EmptyFn
  /\ reviews = <<>> /\ misses = EmptyFn
  /\ IngestIdle
  /\ ReaderIdle(0)
  /\ ClientIdle("off")
  /\ workers \in WorkerCounts
  /\ DriverIdle("acquire")
  /\ MapIdle("off")

NextDriver ==
  \/ DriverAcquire
  \/ DriverSpawn
  \/ TaskIngest
  \/ TaskRelease
  \/ TaskDone
  \/ DriverWait

SpecDriver == InitDriver /\ [][NextDriver]_vars

\* SpecDriverLive: the same, with main and every goroutine scheduled fairly
\* and every IngestHotel returning
SpecDriverLive == InitDriver /\ [][NextDriver]_vars /\ WF_vars(NextDriver)

\* SpecRead: the read API over a store that another process keeps writing,
\* with a bounded number of failing cache and repository calls; nothing is
\* deleted from the cache and nothing expires
InitRead ==
  /\ upstream = Upstream(FALSE, 0, FALSE, <<>>, {})
  /\ faultsLeft = MaxFaults
  /\ todo = <<>>
  /\ \E h \in HotelIds : properties = SeededProperties(h) /\ i18n = SeededI18n(h)
  /\ cache = EmptyFn
  /\ reviews = <<>> /\ misses = EmptyFn
  /\ IngestIdle
  /\ ReaderIdle(MaxReads)
  /\ ClientIdle("off")
  /\ workers = 0 /\ DriverIdle("off")
  /\ MapIdle("off")

NextRead ==
  \/ GetHotel
  \/ ListReviews
  \/ RepoUpsertProperty
  \/ RepoUpsertReviews

SpecRead == InitRead /\ [][NextRead]_vars

\* SpecReingest: the same id ingested by two batch runs, the upstream review
\* list changing in between; no port call fails
InitReingest ==
  /\ \E h \in HotelIds :
       /\ \E docs \in SeqsUpTo(MergeDocs, MaxReviews), al \in {{}, {"fr"}} :
            upstream = Upstream(TRUE, h, TRUE, docs, al)
       /\ todo = <<h, h>>
  /\ faultsLeft = 0
  /\ properties = EmptyFn /\ i18n = EmptyFn /\ cache = EmptyFn
  /\ reviews = <<>> /\ misses = EmptyFn
  /\ IngestIdle
  /\ ReaderIdle(0)
  /\ ClientIdle("off")
  /\ workers = 0 /\ DriverIdle("off")
  /\ MapIdle("off")

NextReingest ==
  \/ IngestStart
  \/ IngestHotel
  \/ UpstreamChange

SpecReingest == InitReingest /\ [][NextReingest]_vars

\* SpecRetry: the same id ingested by two batch runs from an upstream that
\* lacks some resources, with a bounded number of failing port calls
InitRetry ==
  /\ \E h \in HotelIds :
       /\ \E rp \in BOOLEAN, al \in {{}, {"fr"}} :
            upstream = Upstream(TRUE, h, rp,
                         IF rp THEN <<ReviewDoc("r1", "web", "good", "")>> ELSE <<>>, al)
       /\ todo = <<h, h>>
  /\ faultsLeft = MaxFaults
  /\ properties = EmptyFn /\ i18n = EmptyFn /\ cache = EmptyFn
  /\ reviews = <<>> /\ misses = EmptyFn
  /\ IngestIdle
  /\ ReaderIdle(0)
  /\ ClientIdle("off")
  /\ workers = 0 /\ DriverIdle("off")
  /\ MapIdle("off")

SpecRetry == InitRetry /\ [][Next]_vars

\* SpecLangs: one ingestion of an id whose property exists upstream, with
\* any subset of the translations missing, reviews missing, empty or not,
\* every key cached by earlier reads, and a bounded number of failing calls
InitLangs ==
  /\ \E h \in HotelIds :
       /\ \E rp \in BOOLEAN,
             docs \in SeqsUpTo({ReviewDoc("r1", "web", "good", "")}, MaxReviews),
             al \in SUBSET LangSet :
            /\ (~rp => docs = <<>>)
            /\ upstream = Upstream(TRUE, h, rp, docs, al)
       /\ todo = <<h>>
       /\ properties = SeededProperties(h) /\ i18n = SeededI18n(h)
       /\ cache = SeededCache(h, LangSet, TRUE)
  /\ faultsLeft = MaxFaults
  /\ reviews = <<>> /\ misses = EmptyFn
  /\ IngestIdle
  /\ ReaderIdle(0)
  /\ ClientIdle("off")
  /\ workers = 0 /\ DriverIdle("off")
  /\ MapIdle("off")

SpecLangs == InitLangs /\ [][Next]_vars

\* SpecGone: an id ingested and read earlier, every view and the default
\* review listing cached, is ingested again while the read API serves it;
\* the property may have gone upstream, and a bounded number of port calls
\* fail
InitGone ==
  /\ \E h \in HotelIds :
       /\ \E pp \in BOOLEAN :
            upstream = Upstream(pp, h, TRUE, <<ReviewDoc("r1", "web", "good", "")>>, {})
       /\ todo = <<h>>
       /\ properties = SeededProperties(h) /\ i18n = SeededI18n(h)
       /\ cache = SeededCache(h, LangSet, TRUE)
  /\ faultsLeft = MaxFaults
  /\ reviews = <<>> /\ misses = EmptyFn
  /\ IngestIdle
  /\ ReaderIdle(MaxReads)
  /\ ClientIdle("off")
  /\ workers = 0 /\ DriverIdle("off")
  /\ MapIdle("off")

SpecGone == InitGone /\ [][NextConc]_vars

\* lang values the HTTP handler hands to GetHotel: the query parameter as
\* sent (any case, any code), else the Accept-Language pick
ReadLangs == LangSet \cup {"EN", "de"}

\* entries earlier reads of h left under the keys in ks
ReadCache(h, ks) ==
  [ k \in ks |->
      IF k.ns = "hotel"
        THEN View(SeededProperties(h), SeededI18n(h), h, k.lang)
        ELSE [Items |-> <<>>] ]

\* SpecEvict: an id ingested earlier is ingested again with no reader
\* running; earlier reads left any set of entries in the cache; no port call
\* fails
InitEvict ==
  /\ \E h \in HotelIds :
       /\ \E al \in {{}, {"fr"}} :
            upstream = Upstream(TRUE, h, TRUE, <<ReviewDoc("r1", "web", "good", "")>>, al)
       /\ todo = <<h>>
       /\ properties = SeededProperties(h) /\ i18n = SeededI18n(h)
       /\ \E ks \in SUBSET ( {GetHotelKey(h, l) : l \in ReadLangs}
                               \cup {ListReviewsKey(h, pg) : pg \in PageQueries} ) :
            cache = ReadCache(h, ks)
  /\ faultsLeft = 0
  /\ reviews = <<>> /\ misses = EmptyFn
  /\ IngestIdle
  /\ ReaderIdle(0)
  /\ ClientIdle("off")
  /\ workers = 0 /\ DriverIdle("off")
  /\ MapIdle("off")

SpecEvict == InitEvict /\ [][Next]_vars

\* SpecMap: mapProperty applied to one document
InitMap ==
  /\ upstream = Upstream(FALSE, 0, FALSE, <<>>, {})
  /\ faultsLeft = 0
  /\ todo = <<>>
  /\ properties = EmptyFn /\ i18n = EmptyFn /\ cache = EmptyFn
  /\ reviews = <<>> /\ misses = EmptyFn
  /\ IngestIdle
  /\ ReaderIdle(0)
  /\ ClientIdle("off")
  /\ workers = 0 /\ DriverIdle("off")
  /\ mdoc \in Documents /\ hotel = NoHotel /\ mpc = "doc"
  /\ rdoc = NoDocument /\ rtext = NilStr

SpecMap == InitMap /\ [][MapProperty]_vars

\* SpecMapReview: mapReviews applied to one review document
InitMapReview ==
  /\ upstream = Upstream(FALSE, 0, FALSE, <<>>, {})
  /\ faultsLeft = 0
  /\ todo = <<>>
  /\ properties = EmptyFn /\ i18n = EmptyFn /\ cache = EmptyFn
  /\ reviews = <<>> /\ misses = EmptyFn
  /\ IngestIdle
  /\ ReaderIdle(0)
  /\ ClientIdle("off")
  /\ workers = 0 /\ DriverIdle("off")
  /\ mdoc = NoDocument /\ hotel = NoHotel /\ mpc = "review"
  /\ rdoc \in ReviewDocuments /\ rtext = NilStr

SpecMapReview == InitMapReview /\ [][MapReview]_vars

\* ------------------------------------------------- properties of IngestHotel

\* a run of IngestHotel has returned
RunDone == pc = "idle" /\ calls # <<>>
CallOps == [i \in DOMAIN calls |-> calls[i].op]
DelCalls == {i \in DOMAIN calls : calls[i].op = "Del"}
HotelKeys(hid) == [k \in 1..Len(Langs) |-> GetHotelKey(hid, Langs[k])]
ReviewKeys(hid) ==
  << Key("reviews", hid, "", 50, "-created_at"),
     Key("reviews", hid, "", 100, "-created_at"),
     Key("reviews", hid, "", 200, "-created_at") >>

\* C1: whenever IngestHotel(id) calls UpsertReviews or UpsertI18n, the store
\* already holds the property row keyed by id (no child row without parent).
\* Refuted: mapProperty keys the parent row by the id found in the payload.
C1_ParentRowBeforeChildren ==
  pc \in {"UpsertReviews", "UpsertI18n"} => ParentExists(properties, id)

\* C3: once GetProperty and UpsertProperty have succeeded and the
\* invalidation that follows has run with every cache delete succeeding, the
\* cache holds no entry under hotel:<id>:en, :fr or :es, also when a later
\* step of the run fails.
PropertyUpserted ==
  \E i \in DOMAIN calls : calls[i].op = "UpsertProperty" /\ calls[i].res = Nil
C3_HotelKeysEvicted ==
  ( /\ PropertyUpserted
    /\ Cardinality(DelCalls) >= Len(Langs)
    /\ \A i \in DelCalls : calls[i].res = Nil )
  => \A l \in LangSet : GetHotelKey(id, l) \notin DOMAIN cache

\* C3 happens: a run that removed a cached hotel entry, found another
\* language not cached, and then failed at a later step
C3_EvictedThenFailed ==
  /\ RunDone /\ ret # Nil /\ PropertyUpserted
  /\ \A i \in DelCalls : calls[i].res = Nil
  /\ \E i, j \in DelCalls :
       /\ calls[i].key.ns = "hotel" /\ calls[i].n = 1
       /\ calls[j].key.ns = "hotel" /\ calls[j].n = 0
  /\ \A l \in LangSet : GetHotelKey(id, l) \notin DOMAIN cache

\* C4 as stated: after GetProperty returned not-found the run made no upsert
\* and no further fetch, the miss row (id, "not found") exists, and nil was
\* returned.  Refuted: the error of LogMiss is dropped.
C4_MissRowAlwaysExists ==
  (RunDone /\ calls[1].res = ErrNotFound) =>
    /\ ret = Nil
    /\ \A i \in DOMAIN calls : i > 1 => calls[i].op \in {"LogMiss", "Del"}
    /\ <<id, "not found">> \in DOMAIN misses

\* C4 amended: after GetProperty returned not-found the run made no upsert
\* and no further fetch, called LogMiss(id, 404, "not found"), the miss row
\* exists when that call succeeded, and nil was returned.
C4_NotFoundStopsRun ==
  (RunDone /\ calls[1].res = ErrNotFound) =>
    /\ ret = Nil
    /\ \A i \in DOMAIN calls : i > 1 => calls[i].op \in {"LogMiss", "Del"}
    /\ calls[2].op = "LogMiss" /\ calls[2].a = "not found" /\ calls[2].n = 404
    /\ (calls[2].res = Nil => <<id, "not found">> \in DOMAIN misses)

\* C4 happens: a not-found run that left its miss row
C4_NotFoundLogged ==
  /\ RunDone /\ calls[1].res = ErrNotFound /\ ret = Nil
  /\ <<id, "not found">> \in DOMAIN misses
  /\ misses[<<id, "not found">>] = 404

\* C5: a fetch error that is not the client's not-found, unauthorized or
\* forbidden outcome ends the run at once: it is the value returned and no
\* call (so no LogMiss) follows the failed fetch.  Refuted: the tests on the
\* message text also match 'bad status <code>: <body>'.
ClientClassified(e) == e.kind \in {"notfound", "unauthorized", "forbidden"}
C5_OtherErrorsPropagate ==
  \A i \in DOMAIN fetchErr :
    ~ClientClassified(fetchErr[i]) =>
      /\ pc = "idle"
      /\ ret = fetchErr[i]
      /\ calls[Len(calls)].res = fetchErr[i]

\* C6 as stated: after GetProperty failed with unauthorized or forbidden, a
\* miss row of id carries the corresponding status (401 or 403), the hotel
\* keys and the default review-listing key are gone, nothing else was
\* fetched or upserted, and nil was returned.  Refuted: 401 is logged as 403.
C6_MissCarriesOwnStatus ==
  (RunDone /\ calls[1].res \in {ErrUnauthorized, ErrForbidden}) =>
    /\ ret = Nil
    /\ \A i \in DOMAIN calls : i > 1 => calls[i].op \in {"LogMiss", "Del"}
    /\ \E k \in DOMAIN misses :
         /\ k[1] = id
         /\ misses[k] = IF calls[1].res = ErrUnauthorized THEN 401 ELSE 403
    /\ \A l \in LangSet : GetHotelKey(id, l) \notin DOMAIN cache
    /\ ReviewKeys(id)[1] \notin DOMAIN cache

\* C6 amended: after GetProperty failed with unauthorized or forbidden the
\* run called LogMiss(id, 403, "inactive") (the row exists when the call
\* succeeded), then Del on hotel:<id>:en/fr/es and on the review keys of
\* limits 50/100/200 (each key gone when its Del succeeded), nothing else,
\* and returned nil.
C6_AuthStopsRun ==
  (RunDone /\ calls[1].res \in {ErrUnauthorized, ErrForbidden}) =>
    /\ ret = Nil
    /\ CallOps = <<"GetProperty", "LogMiss", "Del", "Del", "Del", "Del", "Del", "Del">>
    /\ calls[2].a = "inactive" /\ calls[2].n = 403
    /\ (calls[2].res = Nil =>
          <<id, "inactive">> \in DOMAIN misses /\ misses[<<id, "inactive">>] = 403)
    /\ [k \in 1..6 |-> calls[k + 2].key] = HotelKeys(id) \o ReviewKeys(id)
    /\ \A k \in 3..8 : calls[k].res = Nil => calls[k].key \notin DOMAIN cache

\* C6 happens: an unauthorized run that removed a cached view and left the
\* row (id, "inactive") with status 403
C6_UnauthorizedLogged ==
  /\ RunDone /\ calls[1].res = ErrUnauthorized /\ ret = Nil
  /\ <<id, "inactive">> \in DOMAIN misses
  /\ \E k \in DelCalls : calls[k].n = 1

\* C7: ingesting the same snapshot twice leaves the rows that ingesting it
\* once leaves.  Refuted: a review without source label has a NULL source,
\* which uq_reviews_natural never matches, so the second run inserts it again.
OnceProperties == UpsertPropertyRows(EmptyFn, mapProperty(upstream.prop.payload))
OnceReviews == UpsertReviewRows(<<>>, mapReviews(id, upstream.revs.docs))
OnceI18n ==
  [k \in {<<id, l>> : l \in {x \in LangSet : upstream.tr[x].present}} |-> [ver |-> 1]]
C7_TwiceEqualsOnce ==
  (RunDone /\ todo = <<>> /\ ret = Nil) =>
    /\ properties = OnceProperties
    /\ i18n = OnceI18n
    /\ reviews = OnceReviews

\* C2: once IngestHotel(id) has returned after a content change, the cache
\* holds under hotel:<id>:<lang> no view other than the stored one.
\* Refuted: a GetHotel that read the store before the upsert writes its view
\* to the cache after the invalidation.
C2_NoStaleViewAfterIngest ==
  (RunDone /\ todo = <<>> /\ ret = Nil) =>
    \A l \in LangSet :
      GetHotelKey(id, l) \in DOMAIN cache =>
        cache[GetHotelKey(id, l)] = View(properties, i18n, id, l)

\* ------------------------------------------------- properties of the client

CallDone == cpc = "done"
SentTo(k) == Cardinality({j \in DOMAIN sent : sent[j] = k})

\* C8: if the get for candidate k returns an error other than not-found, no
\* request goes to a candidate after k and that error is getFirst's result.
C8_StopsOnOtherError ==
  \A g \in DOMAIN gets :
    gets[g].err.kind \notin {"nil", "notfound"} =>
      /\ g = Len(gets)
      /\ CallDone
      /\ result = gets[g].err
      /\ \A j \in DOMAIN sent : sent[j] <= gets[g].cand

\* C8 happens: a first candidate answered 404, the second failed with
\* something else, and candidates remained untried
C8_StoppedBeforeListEnd ==
  /\ CallDone /\ Len(gets) = 2 /\ candidates > 2
  /\ gets[1].err = ErrNotFound
  /\ gets[2].err.kind \in {"unauthorized", "forbidden", "remote", "badstatus", "decode", "canceled"}
  /\ result = gets[2].err

\* C9: if every get before the last was answered 404 at its first request
\* and the last was answered 200 with a JSON body at its first request, the
\* call succeeded with the body of candidate k after exactly k requests, sent
\* to candidates 1..k in that order.
C9_FallbackInOrder ==
  ( /\ CallDone /\ gets # <<>>
    /\ Len(sent) = Len(gets)
    /\ \A g \in 1..(Len(gets) - 1) : gets[g].err = ErrNotFound
    /\ resps = <<Response("status", 200, TRUE, <<>>)>> )
  => /\ result = Nil
     /\ sent = [j \in 1..Len(gets) |-> j]
     /\ out = Len(gets)

\* C9 happens: 404 then 200, two requests, the second candidate's body
C9_SecondCandidateServed ==
  /\ CallDone /\ result = Nil
  /\ sent = <<1, 2>> /\ out = 2
  /\ gets = <<Got(1, ErrNotFound), Got(2, Nil)>>
  /\ resps = <<Response("status", 200, TRUE, <<>>)>>

\* the outcomes after which the claim lets get send the request again
C10_Retryable(r) ==
  \/ r.kind = "neterr" /\ r.live
  \/ r.kind = "status" /\ r.code \in {429, 500, 502, 503, 504}
C10_ErrorOf(r) == IF r.kind = "neterr" THEN ErrNetwork ELSE ErrRemote(r.code)
C10_Exhausted ==
  /\ CallDone /\ Len(resps) = 4
  /\ \A j \in 1..4 : C10_Retryable(resps[j])
\* at most 4 requests per URL; every response but the last of a URL was a
\* retryable one; anything else ended the get
C10_AttemptsAndRetries ==
  /\ \A k \in 1..4 : SentTo(k) <= 4
  /\ \A j \in DOMAIN resps :
       (j < Len(resps) \/ cpc \in {"backoff", "do", "handle"}) => C10_Retryable(resps[j])

\* C10 as stated: ... and when all 4 attempts failed retryably the error of
\* the last attempt is returned.  Refuted: a cancellation after the fourth
\* response makes get return the context's error.
C10_LastErrorAlways ==
  /\ C10_AttemptsAndRetries
  /\ (C10_Exhausted => result = C10_ErrorOf(resps[4]))

\* C10 amended: at most 4 requests per URL; a request is re-sent only after a
\* network failure with the context live, 429 or 500/502/503/504; any other
\* response ends the get; when all 4 attempts failed retryably the error of
\* the last attempt is returned if the context is still live, the context's
\* error otherwise.
C10_RetryPolicy ==
  /\ C10_AttemptsAndRetries
  /\ (C10_Exhausted =>
        result = IF ctx = "canceled" THEN ErrCanceled ELSE C10_ErrorOf(resps[4]))

\* C10 happens: four retryable failures of one URL, the last one returned
C10_FourAttemptsFailed ==
  /\ C10_Exhausted /\ ctx = "live"
  /\ SentTo(1) = 4
  /\ resps[4].code = 503 /\ resps[1].kind = "neterr"
  /\ result = ErrRemote(503)

\* C11: a URL answering 500, 500, then 200 with a JSON body: the get
\* succeeds with the decoded body after exactly three requests to that URL.
C11_RetriesThenSuccess ==
  ( /\ CallDone
    /\ [j \in DOMAIN resps |-> resps[j].code] = <<500, 500, 200>>
    /\ resps[3].json )
  => /\ result = Nil
     /\ gets[Len(gets)] = Got(cand, Nil)
     /\ out = cand
     /\ SentTo(cand) = 3

\* C11 happens: the first candidate answered 500, 500, 200
C11_ThirdAttemptServed ==
  /\ CallDone /\ result = Nil /\ out = 1
  /\ sent = <<1, 1, 1>>
  /\ [j \in DOMAIN resps |-> resps[j].code] = <<500, 500, 200>>

\* C12: every request sent, retries included, is preceded by its own limiter
\* wait: requests sent never exceed limiter tokens taken.  Refuted: get
\* waits once per URL, before its retry loop.
C12_TokenPerRequest == Len(sent) <= waits

\* C13: once the context is cancelled while get waits for the limiter or
\* sleeps between attempts, no further request is sent and what get returns
\* is the context's error.
C13_CancelStopsGet ==
  [][ (ctx = "canceled" /\ cpc \in {"wait", "backoff", "do"}) =>
        /\ sent' = sent
        /\ (gets' # gets => gets'[Len(gets')].err = ErrCanceled) ]_vars

\* C13 happens: cancelled during the sleep that followed a retryable answer
C13_CancelledWhileSleeping ==
  /\ CallDone /\ ctx = "canceled" /\ result = ErrCanceled
  /\ resps # <<>> /\ Len(resps) < MaxAttempts
  /\ \A j \in DOMAIN resps : C10_Retryable(resps[j])
  /\ Len(sent) = Len(resps)

\* --------------------------------------------------- properties of the driver

InFlight == {k \in DOMAIN tasks : tasks[k].pc = "ingest"}
Holding == {k \in DOMAIN tasks : tasks[k].pc \in {"ingest", "release"}}

\* C14: at most cfg.Workers IngestHotel calls are in progress at any moment,
\* and a task releases its semaphore slot exactly once when it finishes,
\* whatever its ingestion returned.
C14_BoundedWorkers ==
  /\ Cardinality(InFlight) <= workers
  /\ sem = Cardinality(Holding) + (IF dpc = "spawn" THEN 1 ELSE 0)
  /\ \A k \in DOMAIN tasks :
       /\ tasks[k].released <= 1
       /\ tasks[k].pc \in {"wgdone", "finished"} => tasks[k].released = 1
       /\ tasks[k].pc \in {"none", "ingest", "release"} => tasks[k].released = 0

\* C14 happens: every slot is taken while main waits for one, and a task
\* whose ingestion failed has released its slot
C14_AllSlotsTaken ==
  /\ workers >= 1 /\ dpc = "acquire" /\ sem = workers
  /\ \E k \in DOMAIN tasks :
       tasks[k].outcome = "err" /\ tasks[k].pc = "finished" /\ tasks[k].released = 1

\* C15: IngestHotel is called at most once per id and never twice at a time
\* for one id; every id the loop has passed was started, whatever the earlier
\* ones returned, and at completion every id was ingested exactly once.
C15_OncePerId ==
  /\ \A k \in DOMAIN tasks : tasks[k].started <= 1
  /\ \A k, j \in InFlight : PropertyIDs[k] = PropertyIDs[j] => k = j
  /\ \A k \in DOMAIN tasks : k < dnext => tasks[k].started = 1
  /\ dpc = "completed" =>
       \A k \in DOMAIN tasks : tasks[k].started = 1 /\ tasks[k].pc = "finished"

\* C15 happens: the batch completed although the first id failed, the ids
\* after it having been ingested successfully
C15_SiblingsSurviveFailure ==
  /\ dpc = "completed"
  /\ tasks[1].outcome = "err"
  /\ \A k \in DOMAIN tasks : k > 1 => tasks[k].outcome = "ok" /\ tasks[k].started = 1

\* C16: for every worker count the driver eventually passes wg.Wait and
\* reaches "ingestion completed".  Refuted: with a worker count of 0 (or
\* less) the first sem.Acquire never returns.
C16_EventuallyCompleted == <>(dpc = "completed")

\* ------------------------------------------------ properties of the read path

Range(f) == {f[x] : x \in DOMAIN f}
\* the key of the read call in hand
ReaderKey == IF rpg = NoPage THEN GetHotelKey(rid, rlang) ELSE ListReviewsKey(rid, rpg)
\* the repository's present answer to the read call in hand
ReaderFresh ==
  IF rpg = NoPage THEN View(properties, i18n, rid, rlang) ELSE ReviewsPage(reviews, rid, rpg)
ReadStarts == rpc = "idle" /\ readsLeft' < readsLeft

\* C17: for en, fr and es the key invalidateHotelLang deletes is the key
\* GetHotel reads and writes, and the keys invalidateReviews deletes include
\* the key ListReviews uses for the handler's default page.
C17_InvalidationKeysMatch ==
  /\ \A h \in HotelIds, l \in LangSet : InvalidateHotelKey(h, l) = GetHotelKey(h, l)
  /\ \A h \in HotelIds : ListReviewsKey(h, DefaultPage) \in Range(InvalidateReviewsKeys(h))
  /\ \A k \in DelCalls :
       calls[k].key \in {GetHotelKey(id, l) : l \in LangSet}
                          \cup {ListReviewsKey(id, PageQuery(n, "-created_at")) : n \in {50, 100, 200}}

\* C17 happens: an ingestion removed a view that GetHotel had cached and the
\* default page that ListReviews had cached
C17_LiveEntriesRemoved ==
  /\ RunDone
  /\ \E k \in DelCalls : calls[k].n = 1 /\ calls[k].key \in {GetHotelKey(id, l) : l \in LangSet}
  /\ \E k \in DelCalls : calls[k].n = 1 /\ calls[k].key = ListReviewsKey(id, DefaultPage)

Incoming == mapReviews(id, revs)
UpsertReviewsDone == pc = "UpsertReviews" /\ pc' = "Del"

\* C19: when UpsertReviews meets a stored row with the natural key of an
\* incoming record, each column takes the incoming value when there is one
\* and keeps the stored value otherwise.  Refuted: aspects is bound as
\* string(rv.AspectsJSON), the empty string and not NULL when absent, so
\* COALESCE takes it and the stored aspects are lost.
C19_AbsentKeepsStored ==
  [][ UpsertReviewsDone =>
        \A k \in 1..Len(reviews) : \A j \in 1..Len(Incoming) :
          ( /\ NaturalConflict(reviews[k], Incoming[j])
            /\ \A x \in 1..Len(Incoming) :
                 NaturalConflict(reviews[k], Incoming[x]) => Incoming[x] = Incoming[j] )
          => /\ reviews'[k].Text =
                  IF Incoming[j].Text # "" THEN Incoming[j].Text ELSE reviews[k].Text
             /\ reviews'[k].Aspects =
                  IF Incoming[j].Aspects # "" THEN Incoming[j].Aspects ELSE reviews[k].Aspects
             /\ reviews'[k].Source = reviews[k].Source ]_vars

\* C20: a miss row, once written, stays and keeps its status code whatever
\* later LogMiss calls for the same (id, reason) carry; the table being
\* keyed by (id, reason) there is one row per pair.
C20_MissStatusKept ==
  [][ \A k \in DOMAIN misses : k \in DOMAIN misses' /\ misses'[k] = misses[k] ]_vars

\* C20 happens: a LogMiss that succeeded with a status other than the one
\* its row was first written with
C20_RepeatedMissOtherStatus ==
  \E k \in DOMAIN calls :
    /\ calls[k].op = "LogMiss" /\ calls[k].res = Nil
    /\ <<id, calls[k].a>> \in DOMAIN misses
    /\ misses[<<id, calls[k].a>>] # calls[k].n

\* --------------------------------- properties of the reviews and i18n steps

\* the outcomes of a fetch the client itself reports as missing or refused
ClientMisses == {ErrNotFound, ErrUnauthorized, ErrForbidden}
CallsOf(op) == {i \in DOMAIN calls : calls[i].op = op}
\* the call i + k of the run has been made
Made(i, k) == i + k <= Len(calls)
\* the last call before j that is not a cache delete
Cause(j) ==
  LET prior == {w \in 1..(j - 1) : calls[w].op # "Del"} IN
  CHOOSE w \in prior : \A x \in prior : x <= w
\* the languages whose translation was requested, in request order
Requested ==
  LET RECURSIVE Walk(_)
      Walk(k) == IF k > Len(calls) THEN <<>>
                 ELSE IF calls[k].op = "GetTranslation"
                        THEN <<calls[k].a>> \o Walk(k + 1)
                        ELSE Walk(k + 1)
  IN Walk(1)

\* C23: when GetReviews returns not-found, unauthorized or forbidden, the
\* run calls LogMiss with reason "reviews" (status 404, or 403 for both
\* refusals), then Del on the three review-listing keys, never UpsertReviews,
\* and then requests the translations starting with en; a run that returns
\* nil has requested all three.
C23_ReviewsMissContinues ==
  \A i \in CallsOf("GetReviews") :
    calls[i].res \in ClientMisses =>
      /\ CallsOf("UpsertReviews") = {}
      /\ Made(i, 1) =>
           /\ calls[i + 1].op = "LogMiss" /\ calls[i + 1].a = "reviews"
           /\ calls[i + 1].n = IF calls[i].res = ErrNotFound THEN 404 ELSE 403
      /\ \A k \in 1..3 : Made(i, k + 1) =>
           calls[i + 1 + k].op = "Del" /\ calls[i + 1 + k].key = ReviewKeys(id)[k]
      /\ Made(i, 5) => calls[i + 5].op = "GetTranslation" /\ calls[i + 5].a = "en"
      /\ pc = "idle" => Made(i, 5)
      /\ (pc = "idle" /\ ret = Nil) => Requested = <<"en", "fr", "es">>

\* C23 happens: a run whose GetReviews was refused, which left the miss row
\* (id, "reviews"), removed the cached default listing and returned nil
\* after requesting the three translations
C23_RefusedReviewsRunCompleted ==
  /\ RunDone /\ ret = Nil
  /\ \E i \in CallsOf("GetReviews") :
       /\ calls[i].res = ErrUnauthorized
       /\ calls[i + 2].n = 1
  /\ <<id, "reviews">> \in DOMAIN misses /\ misses[<<id, "reviews">>] = 403
  /\ ReviewKeys(id)[1] \notin DOMAIN cache
  /\ Requested = <<"en", "fr", "es">>

\* C24: after a successful GetReviews the next call is UpsertReviews exactly
\* when the returned list is non-empty (and UpsertReviews is called nowhere
\* else); when the reviews step completes without error, Del on the default
\* key reviews:<id>:50:-created_at follows, for an empty list too, and the
\* key is gone once that Del has succeeded.
C24_UpsertIffNonEmptyThenEvict ==
  /\ \A j \in CallsOf("UpsertReviews") :
       j > 1 /\ calls[j - 1].op = "GetReviews" /\ calls[j - 1].res = Nil /\ Len(revs) > 0
  /\ \A i \in CallsOf("GetReviews") :
       calls[i].res = Nil =>
         LET d == IF Len(revs) > 0 THEN i + 2 ELSE i + 1 IN
         /\ (Len(revs) > 0 /\ Made(i, 1)) => calls[i + 1].op = "UpsertReviews"
         /\ (Len(revs) > 0 /\ pc = "idle") => Made(i, 1)
         /\ (Len(revs) = 0 \/ (Made(i, 1) /\ calls[i + 1].res = Nil)) =>
              /\ pc = "idle" => d <= Len(calls)
              /\ d <= Len(calls) =>
                   /\ calls[d].op = "Del" /\ calls[d].key = ReviewKeys(id)[1]
                   /\ calls[d].res = Nil => ReviewKeys(id)[1] \notin DOMAIN cache

\* C24 happens: GetReviews returned an empty list, nothing was upserted and
\* the cached default listing was removed
C24_EmptyListEvicted ==
  /\ RunDone /\ CallsOf("UpsertReviews") = {}
  /\ \E i \in CallsOf("GetReviews") :
       /\ calls[i].res = Nil /\ revs = <<>>
       /\ calls[i + 1].op = "Del" /\ calls[i + 1].n = 1
  /\ ReviewKeys(id)[1] \notin DOMAIN cache

\* C25: when UpsertReviews returns an error the run ends there: that call
\* is the last one (no translation is fetched or upserted), and the value
\* returned is an error that wraps the cause.
C25_UpsertReviewsErrorEndsRun ==
  \A i \in CallsOf("UpsertReviews") :
    calls[i].res # Nil =>
      /\ i = Len(calls) /\ pc = "idle"
      /\ CallsOf("GetTranslation") = {} /\ CallsOf("UpsertI18n") = {}
      /\ ret # Nil /\ ret.pre # <<>>
      /\ ret.kind = calls[i].res.kind /\ ret.code = calls[i].res.code
      /\ ret.body = calls[i].res.body

\* C25 happens: a run ended by a failed UpsertReviews
C25_ReviewWriteFailed ==
  /\ RunDone /\ calls[Len(calls)].op = "UpsertReviews"
  /\ calls[Len(calls)].res = ErrDB /\ ret.kind = "db"
  /\ reviews = <<>>

\* C26: translations are requested in the order en, fr, es.  When the fetch
\* of a language is not-found, unauthorized or forbidden the run calls
\* LogMiss with reason "i18n:<lang>", and the next fetch is that of the next
\* language.  A run that returns nil has requested all three, has called
\* UpsertI18n for every language whose fetch succeeded, and holds their rows.
C26_EveryLanguageTried ==
  /\ \E n \in 0..3 : Requested = SubSeq(<<"en", "fr", "es">>, 1, n)
  /\ \A i \in CallsOf("GetTranslation") :
       /\ calls[i].res \in ClientMisses =>
            /\ Made(i, 1) =>
                 /\ calls[i + 1].op = "LogMiss" /\ calls[i + 1].a = "i18n:" \o calls[i].a
                 /\ calls[i + 1].n = IF calls[i].res = ErrNotFound THEN 404 ELSE 403
            /\ Made(i, 2) => calls[i + 2].op = "Del"
            /\ Made(i, 3) => calls[i + 3].op = "GetTranslation"
            /\ pc = "idle" => (ret = Nil /\ calls[i].a = "es" /\ Made(i, 2))
                                \/ Made(i, 3)
       /\ calls[i].res = Nil =>
            /\ Made(i, 1) => calls[i + 1].op = "UpsertI18n" /\ calls[i + 1].a = calls[i].a
            /\ pc = "idle" => Made(i, 1)
            /\ (pc = "idle" /\ ret = Nil) =>
                 /\ calls[i + 1].res = Nil
                 /\ <<id, calls[i].a>> \in DOMAIN i18n /\ i18n[<<id, calls[i].a>>].ver = 1
  /\ (pc = "idle" /\ ret = Nil /\ CallsOf("GetTranslation") # {}) =>
       Requested = <<"en", "fr", "es">>

\* C26 happens: en and es are missing, fr is fetched and upserted between
\* the two misses
C26_MiddleLanguageOnly ==
  /\ RunDone /\ ret = Nil
  /\ \A i \in CallsOf("GetTranslation") :
       calls[i].res = IF calls[i].a = "fr" THEN Nil ELSE ErrNotFound
  /\ {<<id, "i18n:en">>, <<id, "i18n:es">>} \subseteq DOMAIN misses
  /\ <<id, "i18n:fr">> \notin DOMAIN misses
  /\ i18n[<<id, "fr">>].ver = 1 /\ i18n[<<id, "en">>].ver = 0

\* the translation step of language Langs[li] is running
InLangStep ==
  pc \in {"GetTranslation", "UpsertI18n"} \/ (pc \in {"LogMiss", "Del"} /\ after = "NextLang")

\* C27: every call of the translation step for language L leaves each cache
\* entry other than hotel:<id>:<L> as it was, and the only Del it issues is
\* the one on hotel:<id>:<L>.
C27_OnlyOwnLanguageEvicted ==
  [][ (InLangStep /\ calls' # calls) =>
        /\ \A k \in DOMAIN cache :
             k # GetHotelKey(id, Langs[li]) => k \in DOMAIN cache' /\ cache'[k] = cache[k]
        /\ calls'[Len(calls')].op = "Del" =>
             calls'[Len(calls')].key = GetHotelKey(id, Langs[li])
        /\ ~(pc = "Del" /\ pc' = "Del") ]_vars

\* C27 happens: the step of a missing language removed its own entry while
\* another language's entry or a review listing stayed cached
C27_OthersStillCached ==
  /\ calls # <<>> /\ calls[Len(calls)].op = "Del" /\ calls[Len(calls)].n = 1
  /\ calls[Cause(Len(calls))].op = "LogMiss" /\ calls[Cause(Len(calls))].a = "i18n:es"
  /\ GetHotelKey(id, "es") \notin DOMAIN cache
  /\ (GetHotelKey(id, "fr") \in DOMAIN cache \/ ReviewKeys(id)[1] \in DOMAIN cache)

\* C28: a Del that follows an upsert follows a successful one and takes a
\* key of that write (property: a hotel key of id; reviews: a review key of
\* id; translation L: hotel:<id>:<L>); a failed upsert is the last call of
\* its run; every other Del follows a LogMiss or an empty review list.
C28_EvictOnlyAfterWrite ==
  /\ \A j \in DelCalls :
       LET w == calls[Cause(j)] IN
       CASE w.op = "UpsertProperty" ->
              w.res = Nil /\ \E k \in 1..3 : calls[j].key = HotelKeys(id)[k]
         [] w.op = "UpsertReviews" ->
              w.res = Nil /\ \E k \in 1..3 : calls[j].key = ReviewKeys(id)[k]
         [] w.op = "UpsertI18n" ->
              w.res = Nil /\ calls[j].key = GetHotelKey(id, w.a)
         [] w.op = "GetReviews" -> w.res = Nil /\ revs = <<>>
         [] w.op = "LogMiss" -> TRUE
         [] OTHER -> FALSE
  /\ \A i \in DOMAIN calls :
       (calls[i].op \in {"UpsertProperty", "UpsertReviews", "UpsertI18n"} /\ calls[i].res # Nil)
         => i = Len(calls)
  /\ \A i \in CallsOf("UpsertProperty") : calls[i].res = Nil => properties[id].ver = 1
  /\ \A i \in CallsOf("UpsertReviews") : calls[i].res = Nil => Len(reviews) > 0
  /\ \A i \in CallsOf("UpsertI18n") : calls[i].res = Nil => i18n[<<id, calls[i].a>>].ver = 1

\* C28 happens: a run whose three kinds of write succeeded, each followed by
\* its deletes, and whose last translation write failed with no delete after
C28_WritesThenEvictions ==
  /\ RunDone /\ ret = ErrDB
  /\ calls[Len(calls)].op = "UpsertI18n" /\ calls[Len(calls)].a = "es"
  /\ \E i \in CallsOf("UpsertReviews") : calls[i].res = Nil
  /\ Cardinality(DelCalls) = 8

\* ------------------------------------- properties of the retry sleep, getFirst

\* a header the claim counts as present and parseable, and its value in ms
C29_Parseable(h) == (h.form = "secs" /\ h.n >= 0) \/ h.form = "date"
C29_Value(h) == IF h.n > 0 THEN h.n * 1000 ELSE 0
C29_BackoffRange(i) == ((2 ^ i) * 200)..((2 ^ i) * 300)

\* C29: on a retryable status that is not the final attempt, the sleep is
\* the Retry-After value when the header is present and parseable (seconds
\* >= 0, or a date: the larger of zero and the time left), and a backoff
\* duration only when it is absent or unparseable.  Refuted: retryAfter
\* returns 0 for "absent", so Retry-After: 0 and a date not in the future
\* are followed by the exponential backoff instead of no sleep.
C29_SleepIsRetryAfter ==
  (cpc = "backoff" /\ lastErr.kind = "remote" /\ MayRetry(attempt)) =>
    IF C29_Parseable(hdr)
      THEN wait = C29_Value(hdr)
      ELSE wait \in C29_BackoffRange(attempt)

\* C30: getFirst returns nil only if some get returned nil; when every
\* candidate's get returned not-found it returns not-found; and when the
\* list ends with no get having succeeded and no error recorded it returns
\* an error.
C30_GetFirstResult ==
  CallDone =>
    /\ result = Nil => \E g \in DOMAIN gets : gets[g].err = Nil
    /\ ( /\ candidates >= 1 /\ Len(gets) = candidates
         /\ \A g \in DOMAIN gets : gets[g].err = ErrNotFound )
       => result = ErrNotFound
    /\ (gets = <<>> /\ last = Nil) => result = ErrNoCandidate

\* C30 happens: getFirst on the empty list, nothing sent and no error
\* recorded
C30_EmptyListIsError ==
  /\ CallDone /\ candidates = 0 /\ gets = <<>> /\ sent = <<>>
  /\ last = Nil /\ result = ErrNoCandidate

\* ------------------------------------------------ properties of the mappers

Mapped == mpc = "mapped"
\* the candidates of a list that yield a usable string / number
C21_UsableStr(paths) ==
  {k \in DOMAIN paths : lookupAny(mdoc, paths[k]).t = "str" /\ lookupAny(mdoc, paths[k]).s # <<>>}
C21_Numeral(v) == TrimSpace(ReplaceAll(v.s, ",", "."))
C21_UsableNum(paths) ==
  {k \in DOMAIN paths :
     LET v == lookupAny(mdoc, paths[k]) IN
     v.t = "num" \/ (v.t = "str" /\ ParseFloat(C21_Numeral(v)).ok)}
C21_NumAt(path) ==
  LET v == lookupAny(mdoc, path) IN
  IF v.t = "num" THEN v.n ELSE ParseFloat(C21_Numeral(v)).v
C21_Earliest(U) == CHOOSE k \in U : \A j \in U : k <= j
C21_StrResolved(paths, res) ==
  IF C21_UsableStr(paths) = {}
    THEN ~res.ok
    ELSE res.ok /\ res.v = lookupAny(mdoc, paths[C21_Earliest(C21_UsableStr(paths))]).s

\* C21: for every document, each attribute resolved through
\* firstNonEmptyAlias (country, city, the single-field address) or
\* getFloatFlexible (stars) holds the value of the earliest candidate path
\* with a usable value (a non-empty string; a number or a numeral), and
\* nothing when no candidate has one.
C21_EarliestCandidateWins ==
  Mapped =>
    /\ C21_StrResolved(CountryAliases, hotel.Country)
    /\ C21_StrResolved(CityAliases, hotel.City)
    /\ C21_UsableStr(AddressAliases) # {} =>
         C21_StrResolved(AddressAliases, hotel.AddressRaw)
    /\ IF C21_UsableNum(StarsPaths) = {}
         THEN ~hotel.Stars.ok
         ELSE /\ hotel.Stars.ok
              /\ hotel.Stars.v =
                   C21_NumAt(StarsPaths[C21_Earliest(C21_UsableNum(StarsPaths))]) \div 10

\* C21 happens: preferred and legacy country both populated with different
\* values and the preferred one taken; stars unusable and the legacy rating
\* taken
C21_PreferredOverLegacy ==
  /\ Mapped
  /\ lookupStr(mdoc, <<"address", "country">>) = <<"FR">>
  /\ lookupStr(mdoc, <<"country">>) = <<"TR">>
  /\ hotel.Country = PtrStr(<<"FR">>)
  /\ mdoc["stars"].t = "str" /\ mdoc["stars"].s = <<"x">>
  /\ mdoc["rating"].t = "num"
  /\ hotel.Stars = PtrNum(3)

\* the component paths in the order the spec fixes: address.* first
C22_Order ==
  << <<"address", "addressLine1">>, <<"address", "addressLine2">>, <<"address", "street">>,
     <<"address", "district">>, <<"address", "city">>, <<"address", "state">>,
     <<"address", "postcode">>, <<"address", "zip">>, <<"address", "country">>,
     <<"street">>, <<"city">>, <<"postcode">>, <<"zip">>, <<"country">> >>
C22_NoSingleField ==
  \A k \in DOMAIN AddressAliases : lookupStr(mdoc, AddressAliases[k]) = <<>>
C22_Value(k) == TrimSpace(lookupStr(mdoc, C22_Order[k]))
C22_Present == {k \in DOMAIN C22_Order : C22_Value(k) # <<>>}
RECURSIVE C22_JoinFrom(_)
C22_JoinFrom(k) ==
  IF k > Len(C22_Order) THEN <<>>
  ELSE IF k \notin C22_Present THEN C22_JoinFrom(k + 1)
  ELSE C22_Value(k)
         \o (IF \E j \in C22_Present : j > k THEN <<",", " ">> ELSE <<>>)
         \o C22_JoinFrom(k + 1)

\* C22 as stated: when no single-field address alias resolves, the address
\* is the non-empty component values joined with ", " in the fixed order,
\* and absent when no component is present.  Refuted: each component is
\* trimmed first, so one made of white space is left out and one with white
\* space around it is not joined as it stands.
C22_RawPresent == {k \in DOMAIN C22_Order : lookupStr(mdoc, C22_Order[k]) # <<>>}
RECURSIVE C22_RawJoinFrom(_)
C22_RawJoinFrom(k) ==
  IF k > Len(C22_Order) THEN <<>>
  ELSE IF k \notin C22_RawPresent THEN C22_RawJoinFrom(k + 1)
  ELSE lookupStr(mdoc, C22_Order[k])
         \o (IF \E j \in C22_RawPresent : j > k THEN <<",", " ">> ELSE <<>>)
         \o C22_RawJoinFrom(k + 1)
C22_RawComponentsJoined ==
  (Mapped /\ C22_NoSingleField) =>
    IF C22_RawPresent = {}
      THEN hotel.AddressRaw = NilStr
      ELSE hotel.AddressRaw = PtrStr(C22_RawJoinFrom(1))

\* C22 amended: when no single-field address alias resolves, the address is
\* the component values that are not empty after trimming white space, each
\* trimmed, joined with ", " in the fixed order, and is absent when there is
\* none; a present address is never the empty string.
C22_ComposedAddress ==
  Mapped =>
    /\ C22_NoSingleField =>
         IF C22_Present = {}
           THEN hotel.AddressRaw = NilStr
           ELSE hotel.AddressRaw = PtrStr(C22_JoinFrom(1))
    /\ hotel.AddressRaw.ok => hotel.AddressRaw.v # <<>>

\* C22 happens: city = Istanbul and country = TR alone give "Istanbul, TR"
C22_IstanbulTR ==
  /\ Mapped /\ C22_NoSingleField
  /\ C22_Present = {11, 14}
  /\ lookupStr(mdoc, <<"city">>) = <<"Istanbul">>
  /\ lookupStr(mdoc, <<"country">>) = <<"TR">>
  /\ hotel.AddressRaw = PtrStr(<<"Istanbul", ",", " ", "TR">>)

\* ------------------------------------- properties of the ingestion's writes

\* C35: the property record IngestHotel(id) hands to UpsertProperty is keyed
\* by the requested id, whatever payload GetProperty returned.  Refuted:
\* mapProperty takes the key from the payload's hotel_id / cupid_id / id and
\* uses 0 when none resolves (also for the empty map a 204 leaves).
C35_PropertyKeyedByRequestedId ==
  \A i \in DOMAIN calls : calls[i].op = "UpsertProperty" => calls[i].n = id

\* C40: when UpsertProperty returns an error the run ends there with that
\* error: its port calls are GetProperty and UpsertProperty only (no cache
\* delete, no LogMiss, no GetReviews, no GetTranslation) and no miss row is
\* written.
C40_PropertyWriteErrorEndsRun ==
  \A i \in DOMAIN calls :
    (calls[i].op = "UpsertProperty" /\ calls[i].res # Nil) =>
      /\ pc = "idle"
      /\ ret = calls[i].res
      /\ CallOps = <<"GetProperty", "UpsertProperty">>
      /\ misses = EmptyFn

\* C40 happens: the property write failed while views of the id were cached,
\* and they are still cached
C40_PropertyWriteFailed ==
  /\ RunDone /\ ret = ErrDB
  /\ calls[Len(calls)].op = "UpsertProperty"
  /\ \A l \in LangSet : GetHotelKey(id, l) \in DOMAIN cache

\* C31: a cache delete of IngestHotel continues the same way whether or not
\* it returned an error: the next key of the invalidation is deleted next,
\* after the last key the run goes on to the step that follows the
\* invalidation (or returns nil when none follows), and no table changes.
C31_AfterInvalidation ==
  CASE after = "GetReviews" -> "GetReviews"
    [] after = "GetTranslation" -> "GetTranslation"
    [] after = "NextLang" /\ li < Len(Langs) -> "GetTranslation"
    [] OTHER -> "idle"
C31_DelErrorTolerated ==
  [][ pc = "Del" =>
        /\ calls'[Len(calls')].op = "Del"
        /\ dels' = Tail(dels)
        /\ storeVars' = storeVars
        /\ pc' = (IF Tail(dels) # <<>> THEN "Del" ELSE C31_AfterInvalidation)
        /\ ret' = (IF pc' = "idle" THEN Nil ELSE ret) ]_vars

\* C31 happens: a delete failed, the entry stayed cached, and the run still
\* wrote a translation afterwards and returned nil
C31_FailedDeleteRunCompleted ==
  /\ RunDone /\ ret = Nil
  /\ \E i \in DelCalls :
       /\ calls[i].res # Nil
       /\ calls[i].key \in DOMAIN cache
       /\ \E j \in DOMAIN calls :
            j > i /\ calls[j].op = "UpsertI18n" /\ calls[j].res = Nil

\* C38: when the fetch of a later language's translation fails with an error
\* that is neither classed not-found nor unauthorized/forbidden, or its
\* upsert fails, the run ends there with that error; the property row, the
\* reviews, the earlier languages' rows and every delete that succeeded stay
\* in effect, and the rows of the remaining languages are left as they were.
C38_LangIndex(l) == CHOOSE k \in 1..Len(Langs) : Langs[k] = l
C38_Failed(c) ==
  /\ c.a # Langs[1]
  /\ \/ c.op = "GetTranslation" /\ c.res # Nil /\ ~ClassNotFound(c.res) /\ ~ClassAuth(c.res)
     \/ c.op = "UpsertI18n" /\ c.res # Nil
C38_LaterLanguageErrorNoRollback ==
  \A i \in DOMAIN calls :
    C38_Failed(calls[i]) =>
      /\ pc = "idle" /\ ret = calls[i].res /\ i = Len(calls)
      /\ properties[id].ver = 1
      /\ ( (\E j \in DOMAIN calls : calls[j].op = "UpsertReviews") =>
             reviews = UpsertReviewRows(<<>>, mapReviews(id, upstream.revs.docs)) )
      /\ \A j \in 1..(i - 1) :
           /\ (calls[j].op = "UpsertI18n" => i18n[<<id, calls[j].a>>].ver = 1)
           /\ (calls[j].op = "Del" /\ calls[j].res = Nil => calls[j].key \notin DOMAIN cache)
      /\ \A k \in C38_LangIndex(calls[i].a)..Len(Langs) : i18n[<<id, Langs[k]>>].ver = 0

\* C38 happens: the fetch of fr failed with a 5xx after the property, a
\* review and the en translation had been written
C38_SecondLanguageFailed ==
  /\ RunDone /\ ret = ErrRemote(503)
  /\ calls[Len(calls)].op = "GetTranslation" /\ calls[Len(calls)].a = "fr"
  /\ properties[id].ver = 1 /\ Len(reviews) = 1
  /\ i18n[<<id, "en">>].ver = 1 /\ i18n[<<id, "es">>].ver = 0

\* C32: no step of IngestHotel, GetHotel or ListReviews removes a row: the
\* keys of properties, property_i18n and ingest_misses only grow, the rows
\* of reviews keep their place and natural key, and a step that changes a
\* table is a repository call of IngestHotel.
C32_NaturalKey(row) == <<row.PropertyID, row.Source, row.SourceID>>
C32_RowsOnlyGrow ==
  [][ /\ DOMAIN properties \subseteq DOMAIN properties'
      /\ DOMAIN i18n \subseteq DOMAIN i18n'
      /\ DOMAIN misses \subseteq DOMAIN misses'
      /\ Len(reviews) <= Len(reviews')
      /\ \A k \in 1..Len(reviews) :
           C32_NaturalKey(reviews'[k]) = C32_NaturalKey(reviews[k])
      /\ ( storeVars' # storeVars =>
             /\ pc \in {"UpsertProperty", "UpsertReviews", "UpsertI18n", "LogMiss"}
             /\ Len(calls') = Len(calls) + 1
             /\ readerVars' = readerVars ) ]_vars

\* C32 happens: after an ingestion and the reads served beside it, every
\* table holds rows, the rows stored before the run among them
C32_AllTablesFilled ==
  /\ RunDone /\ readsLeft = 0 /\ rpc = "idle"
  /\ id \in DOMAIN properties
  /\ \A l \in LangSet : <<id, l>> \in DOMAIN i18n
  /\ Len(reviews) > 0
  /\ <<id, "i18n:es">> \in DOMAIN misses
  /\ rret.hit

\* C37: a run whose GetProperty ended not-found, unauthorized or forbidden
\* leaves the property, property_i18n and reviews tables as they were and
\* writes at most its own miss row; a GetHotel of the id then returns the
\* stored view (from the cache or the repository), never not-found.
C37_Refused ==
  /\ calls # <<>>
  /\ ClassNotFound(calls[1].res) \/ ClassAuth(calls[1].res)
C37_OnlyMissRowWritten ==
  C37_Refused =>
    /\ properties = SeededProperties(id)
    /\ i18n = SeededI18n(id)
    /\ reviews = <<>>
    /\ DOMAIN misses \subseteq {<<id, "not found">>, <<id, "inactive">>}
    /\ ( (RunDone /\ rpc = "idle" /\ rid = id /\ rpg = NoPage /\ rret.err # ErrDB) =>
           /\ rret.err = Nil
           /\ rret.view = View(SeededProperties(id), SeededI18n(id), id, rlang) )

\* C37 happens: the property had gone upstream, the run logged the miss and
\* evicted the views, and a GetHotel issued afterwards read the stored view
\* from the repository and cached it again
C37_StoredViewServedAgain ==
  /\ RunDone /\ calls[1].res = ErrNotFound
  /\ <<id, "not found">> \in DOMAIN misses
  /\ \A i \in DelCalls : calls[i].res = Nil
  /\ rpc = "idle" /\ rid = id /\ rpg = NoPage
  /\ rret.err = Nil /\ ~rret.hit
  /\ rret.view = View(properties, i18n, id, rlang)
  /\ GetHotelKey(id, rlang) \in DOMAIN cache
  /\ Cardinality({l \in LangSet : GetHotelKey(id, l) \in DOMAIN cache}) = 1

\* C36: once a run of IngestHotel(id) with no reader beside it has returned
\* nil, the cache holds no entry of id that the read path can have written.
\* Refuted: the run deletes hotel:<id>:en, :fr, :es and reviews:<id>:50,
\* :100, :200 only, while GetHotel caches under the lang string as given and
\* ListReviews under any limit from 1 to 200.
C36_NoReadableEntryLeft ==
  (RunDone /\ ret = Nil) => \A k \in DOMAIN cache : k.id # id

\* C33: every string mapProperty resolves through an alias list is non-empty
\* and carries no leading or trailing white space.  Refuted: lookupStr
\* returns the string as it is and firstNonEmptyAlias only tests it against
\* "", so a white-space-only value is accepted and padding is kept.
C33_ResolvedStringsTrimmed ==
  mpc = "mapped" =>
    /\ hotel.Country.ok =>
         hotel.Country.v # <<>> /\ TrimSpace(hotel.Country.v) = hotel.Country.v
    /\ hotel.City.ok =>
         hotel.City.v # <<>> /\ TrimSpace(hotel.City.v) = hotel.City.v

\* C34: when no text alias resolves, the text mapReviews composes has a
\* 'Pros:' line exactly when pros is non-empty and a 'Cons:' line exactly
\* when cons is non-empty, and is absent when both are empty.  Refuted: both
\* labels are written whenever either field is non-empty.
C34_Has(l) == \E k \in 1..Len(rtext.v) : rtext.v[k] = l
C34_LinesOnlyForNonEmpty ==
  (mpc = "mapped" /\ ~firstNonEmptyAlias(rdoc, TextAliases).ok) =>
    /\ rtext.ok <=> (lookupStr(rdoc, <<"pros">>) # <<>> \/ lookupStr(rdoc, <<"cons">>) # <<>>)
    /\ C34_Has("Pros:") <=> lookupStr(rdoc, <<"pros">>) # <<>>
    /\ C34_Has("Cons:") <=> lookupStr(rdoc, <<"cons">>) # <<>>

\* ------------------------------------------- properties of the request count

\* C39: a resource call sends at most 4 requests to each candidate URL,
\* visits the candidates in order and none twice, so at most 8 (GetProperty),
\* 12 (GetReviews) or 16 (GetTranslation) requests; every step of the call
\* (limiter wait, request, response handling, sleep, cancellation) brings it
\* closer to its end; and a run of IngestHotel makes at most one GetProperty,
\* one GetReviews and one GetTranslation per language: at most
\* 4 * (2 + 3 + 3 * 4) = 68 requests.
C39_Left ==
  CASE cpc = "start" -> 5 * 16
    [] cpc = "done" -> 0
    [] cpc = "wait" -> (candidates - cand) * 16 + 15
    [] cpc = "do" -> (candidates - cand) * 16 + (4 - attempt) * 3 + 2
    [] cpc = "handle" -> (candidates - cand) * 16 + (4 - attempt) * 3 + 1
    [] OTHER -> (candidates - cand) * 16 + (4 - attempt) * 3
C39_Rank == 2 * C39_Left + (IF ctx = "live" THEN 1 ELSE 0)
C39_Fetches(op) == Cardinality({i \in DOMAIN calls : calls[i].op = op})
C39_Bound ==
  /\ \A k \in 1..4 : SentTo(k) <= 4
  /\ \A i \in DOMAIN sent :
       /\ sent[i] \in 1..candidates
       /\ i > 1 => sent[i - 1] <= sent[i]
  /\ candidates <= 4
  /\ Len(sent) <= 4 * candidates
  /\ C39_Fetches("GetProperty") <= 1
  /\ C39_Fetches("GetReviews") <= 1
  /\ C39_Fetches("GetTranslation") <= Len(Langs)
  /\ 4 * (2 + 3 + Len(Langs) * 4) = 68
====
